---- MODULE Spec2Model ----
(***************************************************************************)
(* Model of the mnllib compression codec (src/src/compression.rs) and the  *)
(* header varint (src/src/misc.rs).                                        *)
(*                                                                         *)
(* compress and decompress are modelled as step machines over records      *)
(* holding the locals of the Rust functions; one action per loop head or   *)
(* loop body.  Buffers are sequences of bytes (0..255).  The Cursor that   *)
(* decompress writes to is a pair (dst, dst_pos).                          *)
(*                                                                         *)
(* Integer overflow: Rust panics when the build has overflow checks        *)
(* (debug profile) and wraps otherwise (release profile).  The variable    *)
(* overflow_checks is the build profile; both are explored.                *)
(***************************************************************************)
EXTENDS Integers, Sequences, FiniteSets, TLC

VARIABLES
    overflow_checks,  \* build profile: TRUE = arithmetic overflow panics
    c,                \* locals of compress (compression.rs:108-207)
    d,                \* locals of decompress (compression.rs:42-106)
    h,                \* a header computation on a bare length (compression.rs:112-115)
    m                 \* a call into misc.rs or map.rs: its input, position and results

vars == <<overflow_checks, c, d, h, m>>

----------------------------------------------------------------------------
(* Bounds of the model *)

\* longest exhaustively enumerated input buffer
MaxLen == 5

\* largest exhaustively enumerated value given to encode_var
MaxVarint == 320

\* most chunks in the enumerated files with an offset table
MaxChunks == 2

\* most commands in a block of the exhaustively crafted compressed streams
MaxCmds == 2

----------------------------------------------------------------------------
(* Bit and byte helpers *)

Min(a, b) == IF a < b THEN a ELSE b
Max(a, b) == IF a > b THEN a ELSE b

RECURSIVE BitOr(_, _)
BitOr(a, b) ==
    IF a = 0 THEN b
    ELSE IF b = 0 THEN a
    ELSE (IF a % 2 = 1 \/ b % 2 = 1 THEN 1 ELSE 0) + 2 * BitOr(a \div 2, b \div 2)

RECURSIVE Pow2(_)
Pow2(n) == IF n = 0 THEN 1 ELSE 2 * Pow2(n - 1)

\* vec![value; count]
Repeat(value, count) == [i \in 1..count |-> value]

\* A number too wide for the model checker's integers is kept as two 16-bit
\* halves: value = hi * 65536 + lo.  A u32 has hi < 65536; a usize may not.
Wide(n) == [hi |-> n \div 65536, lo |-> n % 65536]

\* self >>= 6 on a wide number
WideShr6(w) == [hi |-> w.hi \div 64, lo |-> (w.lo \div 64) + (w.hi % 64) * 1024]

\* self > 255 on a wide number
WideGt255(w) == w.hi > 0 \/ w.lo > 255

\* self > 0 on a wide number
WideGt0(w) == w.hi > 0 \/ w.lo > 0

\* u32::try_from(usize) succeeds
FitsU32(w) == w.hi < 65536

----------------------------------------------------------------------------
(* Varint: misc.rs *)

\* result[0] += 1 << 6 : u8 addition; overflow is reported, the value wraps
BumpFirst(result) ==
    [bytes |-> [result EXCEPT ![1] = (result[1] + 64) % 256],
     overflow |-> result[1] + 64 > 255]

\* encode_var_while that goes on while self > 127 (for self > 255)
RECURSIVE encode_var_whileEager(_, _, _)
encode_var_whileEager(self, result, overflowed) ==
    IF self.hi > 0 \/ self.lo > 127
    THEN LET b == BumpFirst(Append(result, self.lo % 256))
         IN encode_var_whileEager(WideShr6(self), b.bytes, overflowed \/ b.overflow)
    ELSE [self |-> self, bytes |-> result, overflow |-> overflowed]

\* the while loop of encode_var, misc.rs:47-51
RECURSIVE encode_var_while(_, _, _)
encode_var_while(self, result, overflowed) ==
    IF WideGt255(self)
    THEN LET b == BumpFirst(Append(result, self.lo % 256))
         IN encode_var_while(WideShr6(self), b.bytes, overflowed \/ b.overflow)
    ELSE [self |-> self, bytes |-> result, overflow |-> overflowed]

\* VarInt::encode_var for u32 (a wide number), misc.rs:43-58.
\* overflow tells that result[0] += 64 overflowed its u8: a panic under
\* overflow checks, and the wrapped bytes otherwise.
encode_var(v) ==
    LET w == encode_var_while(WideShr6(v), <<v.lo % 64>>, FALSE)
    IN  IF WideGt0(w.self)
        THEN LET b == BumpFirst(Append(w.bytes, w.self.lo % 256))
             IN [bytes |-> b.bytes, overflow |-> w.overflow \/ b.overflow]
        ELSE [bytes |-> w.bytes, overflow |-> w.overflow]

\* read_varint_for with the extra bytes 8 bits apart (for 6)
RECURSIVE read_varint_forBytes(_, _, _, _, _)
read_varint_forBytes(src, pos, i, size, result) ==
    IF i >= size THEN [ok |-> TRUE, value |-> result, pos |-> pos]
    ELSE IF pos >= Len(src) THEN [ok |-> FALSE, value |-> result, pos |-> Len(src)]
    ELSE read_varint_forBytes(src, pos + 1, i + 1, size,
                              BitOr(result, src[pos + 1] * Pow2((i + 1) * 8)))

\* the for loop of read_varint, misc.rs:32-34
RECURSIVE read_varint_for(_, _, _, _, _)
read_varint_for(src, pos, i, size, result) ==
    IF i >= size THEN [ok |-> TRUE, value |-> result, pos |-> pos]
    ELSE IF pos >= Len(src) THEN [ok |-> FALSE, value |-> result, pos |-> Len(src)]
    ELSE read_varint_for(src, pos + 1, i + 1, size,
                         BitOr(result, src[pos + 1] * Pow2((i + 1) * 6)))

\* VarIntReader::read_varint on a reader at position pos, misc.rs:27-37
read_varint(src, pos) ==
    IF pos >= Len(src) THEN [ok |-> FALSE, value |-> 0, pos |-> Len(src)]
    ELSE LET data == src[pos + 1]
         IN read_varint_for(src, pos + 1, 0, data \div 64, data % 64)

----------------------------------------------------------------------------
(* decompress: compression.rs:42-106 *)

\* Cursor<Vec<u8>>::write_all at position pos: overwrites, then extends
CursorWrite(dst, pos, buf) ==
    SubSeq(dst, 1, pos) \o buf \o SubSeq(dst, pos + Len(buf) + 1, Len(dst))

\* the locals of decompress on entry; src is a Cursor at 0 over the compressed
\* bytes and dst an empty Cursor<Vec<u8>> (as in misc.rs:71-72)
DecompressEntry(src, strict) ==
    [pc |-> "header", src |-> src, pos |-> 0, dst |-> <<>>, dst_pos |-> 0,
     strict |-> strict, uncompressed_size |-> 0, num_blocks |-> 0, block |-> 0,
     block_size |-> 0, block_start |-> 0, group |-> 0, commands_byte |-> 0,
     command |-> 0, result |-> "Running", declared |-> 0, actual |-> 0]

\* return Err(..) / Ok(()) / panic: the call is over
DecompressEnd(s, result) == [s EXCEPT !.pc = "done", !.result = result]

\* a read past the end of src: `?` returns Err(Io); the Cursor is left at its end
SrcEof(s) == [DecompressEnd(s, "Io") EXCEPT !.pos = Len(s.src)]

\* lines 47-48
DecompressHeaderStep(s) ==
    LET v1 == read_varint(s.src, s.pos)
        v2 == read_varint(s.src, v1.pos)
    IN  IF ~v1.ok \/ ~v2.ok THEN SrcEof(s)
        ELSE [s EXCEPT !.pc = "block", !.pos = v2.pos,
                       !.uncompressed_size = v1.value,
                       !.num_blocks = v2.value + 1]

\* lines 50-52: one more iteration of `for _ in 0..num_blocks`
DecompressBlockStartStep(s) ==
    IF s.pos + 2 > Len(s.src) THEN SrcEof(s)
    ELSE [s EXCEPT !.pc = "group", !.group = 0,
                   !.block_size = s.src[s.pos + 1] + 256 * s.src[s.pos + 2],
                   !.pos = s.pos + 2, !.block_start = s.pos + 2]

\* DecompressGroupStep with one more round of the loop (`0..=256` for `0..256`)
DecompressGroupStepMore(s) ==
    IF s.group >= 257 THEN [s EXCEPT !.pc = "block_end"]
    ELSE IF s.pos >= Len(s.src) THEN SrcEof(s)
    ELSE [s EXCEPT !.pc = "command", !.command = 0,
                   !.commands_byte = s.src[s.pos + 1], !.pos = s.pos + 1]

\* lines 54-55: head of `'block: for _ in 0..256` and the read of commands_byte
DecompressGroupStep(s) ==
    IF s.group >= 256 THEN [s EXCEPT !.pc = "block_end"]
    ELSE IF s.pos >= Len(s.src) THEN SrcEof(s)
    ELSE [s EXCEPT !.pc = "command", !.command = 0,
                   !.commands_byte = s.src[s.pos + 1], !.pos = s.pos + 1]

\* line 81 and the heads of the two loops after it
DecompressNextCommand(s) ==
    IF s.command + 1 < 4
    THEN [s EXCEPT !.command = s.command + 1, !.commands_byte = s.commands_byte \div 4]
    ELSE [s EXCEPT !.pc = "group", !.group = s.group + 1,
                   !.command = s.command + 1, !.commands_byte = s.commands_byte \div 4]

\* lines 61-65
DecompressCopy(s) ==
    IF s.pos >= Len(s.src) THEN SrcEof(s)
    ELSE DecompressNextCommand(
            [s EXCEPT !.pos = s.pos + 1,
                      !.dst = CursorWrite(s.dst, s.dst_pos, <<s.src[s.pos + 1]>>),
                      !.dst_pos = s.dst_pos + 1])

\* line 69: the distance of an Lz77 command with operand bytes b0, b1
Lz77Distance(b0, b1) == BitOr(b0, ((b1 \div 16) * 16) * 16)

\* line 70: the length of an Lz77 command
Lz77Length(b1) == (b1 % 16) + 2

\* lines 66-74.  seek_relative fails on a negative position; read_exact on the
\* Cursor fails when fewer than `length` bytes follow the position.
DecompressLz77(s) ==
    IF s.pos + 2 > Len(s.src) THEN SrcEof(s)
    ELSE LET b0 == s.src[s.pos + 1]
             b1 == s.src[s.pos + 2]
             t == [s EXCEPT !.pos = s.pos + 2]
             from == s.dst_pos - Lz77Distance(b0, b1)
             length == Lz77Length(b1)
         IN  IF from < 0 THEN DecompressEnd(t, "Io")
             ELSE IF from + length > Len(s.dst)
                  THEN DecompressEnd([t EXCEPT !.dst_pos = Len(s.dst)], "Io")
             ELSE LET data_to_copy == SubSeq(s.dst, from + 1, from + length)
                  IN DecompressNextCommand(
                        [t EXCEPT !.dst = CursorWrite(s.dst, Len(s.dst), data_to_copy),
                                  !.dst_pos = Len(s.dst) + length])

\* line 76: `src.read_u8()? + 2` is u8 arithmetic
RleCount(n) == [value |-> (n + 2) % 256, overflow |-> n + 2 > 255]

\* lines 75-79
DecompressRle(s, checks) ==
    IF s.pos >= Len(s.src) THEN SrcEof(s)
    ELSE LET count == RleCount(s.src[s.pos + 1])
             t == [s EXCEPT !.pos = s.pos + 1]
         IN  IF count.overflow /\ checks THEN DecompressEnd(t, "Panic")
             ELSE IF t.pos >= Len(s.src) THEN SrcEof(t)
             ELSE LET data == s.src[t.pos + 1]
                  IN DecompressNextCommand(
                        [t EXCEPT !.pos = t.pos + 1,
                                  !.dst = CursorWrite(s.dst, s.dst_pos,
                                                      Repeat(data, count.value)),
                                  !.dst_pos = s.dst_pos + count.value])

\* CompressionCommand::try_from(commands_byte & 0x03), lines 13-20 and 57
CommandOf(commands_byte) ==
    CASE commands_byte % 4 = 0 -> "EndBlock"
      [] commands_byte % 4 = 1 -> "Copy"
      [] commands_byte % 4 = 2 -> "Lz77"
      [] commands_byte % 4 = 3 -> "Rle"

\* DecompressCommandStep with EndBlock ending its own code only, the loop
\* going on with the next code (`continue` for `break 'block`)
DecompressCommandSkip(s, checks) ==
    CASE CommandOf(s.commands_byte) = "EndBlock" -> DecompressNextCommand(s)
      [] CommandOf(s.commands_byte) = "Copy" -> DecompressCopy(s)
      [] CommandOf(s.commands_byte) = "Lz77" -> DecompressLz77(s)
      [] CommandOf(s.commands_byte) = "Rle" -> DecompressRle(s, checks)

\* lines 56-82: one iteration of `for _ in 0..4`
DecompressCommandStep(s, checks) ==
    CASE CommandOf(s.commands_byte) = "EndBlock" -> [s EXCEPT !.pc = "block_end"]
      [] CommandOf(s.commands_byte) = "Copy" -> DecompressCopy(s)
      [] CommandOf(s.commands_byte) = "Lz77" -> DecompressLz77(s)
      [] CommandOf(s.commands_byte) = "Rle" -> DecompressRle(s, checks)

\* DecompressBlockEndStep failing only on a block longer than declared
DecompressBlockEndLonger(s) ==
    LET actual_block_size == s.pos - s.block_start
    IN  IF s.strict /\ actual_block_size > s.block_size
        THEN [DecompressEnd(s, "IncorrectBlockSize")
                EXCEPT !.declared = s.block_size, !.actual = actual_block_size]
        ELSE [s EXCEPT !.pc = "block", !.block = s.block + 1]

\* DecompressBlockEndStep checking the block size whatever `strict` is
DecompressBlockEndAlways(s) ==
    LET actual_block_size == s.pos - s.block_start
    IN  IF actual_block_size # s.block_size
        THEN [DecompressEnd(s, "IncorrectBlockSize")
                EXCEPT !.declared = s.block_size, !.actual = actual_block_size]
        ELSE [s EXCEPT !.pc = "block", !.block = s.block + 1]

\* lines 85-94
DecompressBlockEndStep(s) ==
    LET actual_block_size == s.pos - s.block_start
    IN  IF s.strict /\ actual_block_size # s.block_size
        THEN [DecompressEnd(s, "IncorrectBlockSize")
                EXCEPT !.declared = s.block_size, !.actual = actual_block_size]
        ELSE [s EXCEPT !.pc = "block", !.block = s.block + 1]

\* DecompressReturnStep failing only on an output longer than declared
DecompressReturnLonger(s) ==
    LET actual_uncompressed_size == s.dst_pos
    IN  IF s.strict /\ actual_uncompressed_size > s.uncompressed_size
        THEN [DecompressEnd(s, "IncorrectUncompressedSize")
                EXCEPT !.declared = s.uncompressed_size,
                       !.actual = actual_uncompressed_size]
        ELSE DecompressEnd(s, "Ok")

\* lines 96-105
DecompressReturnStep(s) ==
    LET actual_uncompressed_size == s.dst_pos
    IN  IF s.strict /\ actual_uncompressed_size # s.uncompressed_size
        THEN [DecompressEnd(s, "IncorrectUncompressedSize")
                EXCEPT !.declared = s.uncompressed_size,
                       !.actual = actual_uncompressed_size]
        ELSE DecompressEnd(s, "Ok")

\* one step of decompress from the locals s
DecompressStep(s, checks) ==
    CASE s.pc = "header" -> DecompressHeaderStep(s)
      [] s.pc = "block" /\ s.block < s.num_blocks -> DecompressBlockStartStep(s)
      [] s.pc = "block" /\ s.block >= s.num_blocks -> DecompressReturnStep(s)
      [] s.pc = "group" -> DecompressGroupStep(s)
      [] s.pc = "command" -> DecompressCommandStep(s, checks)
      [] s.pc = "block_end" -> DecompressBlockEndStep(s)
      [] OTHER -> s

\* decompress run to its return
RECURSIVE DecompressRun(_, _)
DecompressRun(s, checks) ==
    IF s.pc \in {"done", "idle"} THEN s ELSE DecompressRun(DecompressStep(s, checks), checks)

\* decompress(Cursor::new(src), &mut Cursor::new(Vec::new()), strict)
decompress(src, strict, checks) == DecompressRun(DecompressEntry(src, strict), checks)

----------------------------------------------------------------------------
(* compress: compression.rs:108-207 *)

\* lines 112-115 on an input of `size` bytes (a wide number): the header bytes
\* written to dst, num_blocks, and how the lines end.  wrapped tells that an
\* arithmetic overflow went unnoticed (a build without overflow checks).
CompressHeader(size, checks) ==
    IF ~FitsU32(size)
    THEN [result |-> "TryFromInt", bytes |-> <<>>, num_blocks |-> 0, wrapped |-> FALSE]
    ELSE
    LET e1 == encode_var(size)
        num_blocks == size.hi * 128 + (size.lo + 511) \div 512
        minus1 == IF num_blocks = 0 THEN [hi |-> 65535, lo |-> 65535]
                  ELSE Wide(num_blocks - 1)
        e2 == encode_var(minus1)
    IN  IF e1.overflow /\ checks
        THEN [result |-> "Panic", bytes |-> <<>>, num_blocks |-> 0, wrapped |-> FALSE]
        ELSE IF (num_blocks = 0 \/ e2.overflow) /\ checks
        THEN [result |-> "Panic", bytes |-> e1.bytes, num_blocks |-> num_blocks,
              wrapped |-> FALSE]
        ELSE [result |-> "Ok", bytes |-> e1.bytes \o e2.bytes, num_blocks |-> num_blocks,
              wrapped |-> e1.overflow \/ num_blocks = 0 \/ e2.overflow]

\* no command written yet
NoCommand ==
    [command |-> "None", position |-> 0, offset |-> 0, length |-> 0, rle_count |-> 0,
     lz77_best_length |-> 0, operands |-> <<>>]

\* the locals of compress on entry; dst is an empty Cursor<Vec<u8>> (misc.rs:98)
CompressEntry(src) ==
    [pc |-> "header", src |-> src, dst |-> <<>>, num_blocks |-> 0, block_number |-> 0,
     uncompressed_block_position |-> 0, uncompressed_block_size |-> 0,
     uncompressed_block_offset |-> 0, compressed_block_position |-> 0,
     last_command_number |-> -1, commands_byte_position |-> 0, commands_byte |-> 0,
     command_number |-> 0, result |-> "Running", wrapped |-> FALSE, last |-> NoCommand]

CompressEnd(s, result) == [s EXCEPT !.pc = "done", !.result = result]

\* lines 112-115
CompressHeaderStep(s, checks) ==
    LET hd == CompressHeader(Wide(Len(s.src)), checks)
        t == [s EXCEPT !.dst = hd.bytes, !.num_blocks = hd.num_blocks,
                       !.wrapped = hd.wrapped]
    IN  IF hd.result = "Ok" THEN [t EXCEPT !.pc = "block"] ELSE CompressEnd(t, hd.result)

\* CompressBlockStartStep with blocks of at most 511 bytes
CompressBlockStartShort(s) ==
    LET uncompressed_block_position == s.block_number * 512
    IN [s EXCEPT !.pc = "while",
                 !.uncompressed_block_position = uncompressed_block_position,
                 !.uncompressed_block_size =
                     Min(Len(s.src) - uncompressed_block_position, 511),
                 !.uncompressed_block_offset = 0,
                 !.compressed_block_position = Len(s.dst),
                 !.dst = s.dst \o <<0, 0>>,
                 !.last_command_number = -1]

\* lines 117-123: one more iteration of `for block_number in 0..num_blocks`
CompressBlockStartStep(s) ==
    LET uncompressed_block_position == s.block_number * 512
    IN [s EXCEPT !.pc = "while",
                 !.uncompressed_block_position = uncompressed_block_position,
                 !.uncompressed_block_size =
                     Min(Len(s.src) - uncompressed_block_position, 512),
                 !.uncompressed_block_offset = 0,
                 !.compressed_block_position = Len(s.dst),
                 !.dst = s.dst \o <<0, 0>>,
                 !.last_command_number = -1]

\* lines 126-128: a new command group
CompressGroupStartStep(s) ==
    [s EXCEPT !.pc = "command", !.commands_byte_position = Len(s.dst),
              !.commands_byte = 0, !.dst = Append(s.dst, 0), !.command_number = 0]

\* the largest length an Lz77 command can have
MaxLz77Length == 17

\* the smallest offset the match search tries
MinLz77Offset == 2

\* the largest offset the match search tries (0xFFF)
MaxLz77Offset == 4095

\* the largest run an Rle command can have
MaxRleCount == 257

\* MatchLength with the cap on the length off by one (`<= 17` for `< 17`)
RECURSIVE MatchLengthInclusive(_, _, _, _, _)
MatchLengthInclusive(src, p, offset, room, current_length) ==
    IF current_length <= MaxLz77Length /\ current_length < offset /\ current_length < room
       /\ src[p + current_length + 1] = src[p - offset + current_length + 1]
    THEN MatchLengthInclusive(src, p, offset, room, current_length + 1)
    ELSE current_length

\* MatchLength without the cap of the length at the offset
\* (`u16::from(current_length) < offset` left out)
RECURSIVE MatchLengthOverlap(_, _, _, _, _)
MatchLengthOverlap(src, p, offset, room, current_length) ==
    IF current_length < MaxLz77Length /\ current_length < room
       /\ src[p + current_length + 1] = src[p - offset + current_length + 1]
    THEN MatchLengthOverlap(src, p, offset, room, current_length + 1)
    ELSE current_length

\* lines 140-153: the length of the match at offset, from position p, with
\* `room` bytes left in the block
RECURSIVE MatchLength(_, _, _, _, _)
MatchLength(src, p, offset, room, current_length) ==
    IF current_length < MaxLz77Length /\ current_length < offset /\ current_length < room
       /\ src[p + current_length + 1] = src[p - offset + current_length + 1]
    THEN MatchLength(src, p, offset, room, current_length + 1)
    ELSE current_length

\* KeepBest taking the later offset on equal lengths (`>=` for `>`)
KeepBestLast(best, current_length, offset) ==
    IF current_length >= best.length
    THEN [length |-> current_length, offset |-> offset]
    ELSE best

\* lines 154-157: keep the better of the best match so far and the one at offset
KeepBest(best, current_length, offset) ==
    IF current_length > best.length
    THEN [length |-> current_length, offset |-> offset]
    ELSE best

\* lines 139-158: `for offset in (low..=high).rev()`, the offsets taken from
\* high down to low.  The range is halved (upper half first) only to keep the
\* evaluation shallow; the offsets are visited in the loop's order.
RECURSIVE Lz77Scan(_, _, _, _, _, _)
Lz77Scan(src, p, low, high, room, best) ==
    IF high < low THEN best
    ELSE IF high = low
    THEN KeepBest(best, MatchLength(src, p, high, room, 0), high)
    ELSE LET mid == (low + high) \div 2
             upper == Lz77Scan(src, p, mid + 1, high, room, best)
         IN  \* the test only makes the upper half be evaluated before the lower
             IF upper.length >= 0 THEN Lz77Scan(src, p, low, mid, room, upper) ELSE upper

\* lines 137-158
Lz77Best(src, p, room) ==
    Lz77Scan(src, p, MinLz77Offset, Min(p, MaxLz77Offset), room,
             [length |-> 0, offset |-> 0])

\* RleRun with the cap on the count one too low (`< 256` for `< 257`)
RleRunShort(src, p, room, rle_count) ==
    LET stops == {k \in rle_count..Max(rle_count, Min(room, MaxRleCount - 1)) :
                    ~(k < room /\ k < MaxRleCount - 1 /\ src[p + k + 1] = src[p + 1])}
    IN CHOOSE k \in stops : \A j \in stops : k <= j

\* lines 160-168: rle_count after the while loop, which from `rle_count` on
\* stops at the first count that is not below room, not below MaxRleCount, or
\* whose byte differs from the first byte
RleRun(src, p, room, rle_count) ==
    LET stops == {k \in rle_count..Max(rle_count, Min(room, MaxRleCount)) :
                    ~(k < room /\ k < MaxRleCount /\ src[p + k + 1] = src[p + 1])}
    IN CHOOSE k \in stops : \A j \in stops : k <= j

\* the operand bytes with the high nibble of the offset left unshifted
Lz77OperandsUnshifted(lz77_best_offset, lz77_best_length) ==
    <<lz77_best_offset % 256,
      BitOr(lz77_best_length - 2, (lz77_best_offset \div 256) % 16)>>

\* lines 177-180: the operand bytes of an Lz77 command
Lz77Operands(lz77_best_offset, lz77_best_length) ==
    <<lz77_best_offset % 256,
      BitOr(lz77_best_length - 2, (((lz77_best_offset \div 256) % 16) * 256) \div 16)>>

\* line 183: the operand bytes of an Rle command
RleOperands(rle_count, first_byte) == <<(rle_count - 2) % 256, first_byte>>

\* u8::from(current_command)
CodeOf(command) ==
    CASE command = "EndBlock" -> 0
      [] command = "Copy" -> 1
      [] command = "Lz77" -> 2
      [] command = "Rle" -> 3

\* ChooseCommand with the Lz77 match winning the ties (`>=` for `>`)
ChooseCommandTies(src, p, room) ==
    LET first_byte == src[p + 1]
        lz == Lz77Best(src, p, room)
        rle_count == RleRun(src, p, room, 1)
        best_length == Max(lz.length, rle_count)
        command == IF best_length <= 1 THEN "Copy"
                   ELSE IF lz.length >= rle_count THEN "Lz77"
                   ELSE "Rle"
    IN [command |-> command, position |-> p, offset |-> lz.offset, length |-> best_length,
        rle_count |-> rle_count, lz77_best_length |-> lz.length,
        operands |-> CASE command = "Copy" -> <<first_byte>>
                       [] command = "Lz77" -> Lz77Operands(lz.offset, lz.length)
                       [] command = "Rle" -> RleOperands(rle_count, first_byte)]

\* lines 170-184: the command written at position p
ChooseCommand(src, p, room) ==
    LET first_byte == src[p + 1]
        lz == Lz77Best(src, p, room)
        rle_count == RleRun(src, p, room, 1)
        best_length == Max(lz.length, rle_count)
        command == IF best_length <= 1 THEN "Copy"
                   ELSE IF lz.length > rle_count THEN "Lz77"
                   ELSE "Rle"
    IN [command |-> command, position |-> p, offset |-> lz.offset, length |-> best_length,
        rle_count |-> rle_count, lz77_best_length |-> lz.length,
        operands |-> CASE command = "Copy" -> <<first_byte>>
                       [] command = "Lz77" -> Lz77Operands(lz.offset, lz.length)
                       [] command = "Rle" -> RleOperands(rle_count, first_byte)]

\* lines 129-189: one iteration of `for command_number in 0..4`
CompressCommandStep(s) ==
    LET p == s.uncompressed_block_position + s.uncompressed_block_offset
        cmd == ChooseCommand(s.src, p, s.uncompressed_block_size - s.uncompressed_block_offset)
    IN [s EXCEPT !.dst = s.dst \o cmd.operands,
                 !.commands_byte =
                     BitOr(s.commands_byte, CodeOf(cmd.command) * Pow2(s.command_number * 2)),
                 !.uncompressed_block_offset = s.uncompressed_block_offset + cmd.length,
                 !.last_command_number = s.command_number,
                 !.command_number = s.command_number + 1,
                 !.last = cmd]

\* lines 190-192: backpatch the group's commands byte
CompressGroupEndStep(s) ==
    [s EXCEPT !.pc = "while",
              !.dst = CursorWrite(s.dst, s.commands_byte_position, <<s.commands_byte>>)]

\* CompressBlockEndStep without the explicit EndBlock byte of lines 195-197
CompressBlockEndBare(s) ==
    LET size == Len(s.dst) - s.compressed_block_position - 2
    IN  IF size > 65535 THEN CompressEnd(s, "TryFromInt")
        ELSE [s EXCEPT !.pc = "block", !.block_number = s.block_number + 1,
                       !.dst = CursorWrite(s.dst, s.compressed_block_position,
                                           <<size % 256, size \div 256>>)]

\* CompressBlockEndStep with the two bytes of the prefix counted in the size
CompressBlockEndWithPrefix(s) ==
    LET ended == IF s.last_command_number = 3 THEN Append(s.dst, 0) ELSE s.dst
        size == Len(ended) - s.compressed_block_position
    IN  IF size > 65535 THEN CompressEnd([s EXCEPT !.dst = ended], "TryFromInt")
        ELSE [s EXCEPT !.pc = "block", !.block_number = s.block_number + 1,
                       !.dst = CursorWrite(ended, s.compressed_block_position,
                                           <<size % 256, size \div 256>>)]

\* lines 195-203: the explicit EndBlock byte and the backpatched size prefix
CompressBlockEndStep(s) ==
    LET ended == IF s.last_command_number = 3 THEN Append(s.dst, 0) ELSE s.dst
        size == Len(ended) - s.compressed_block_position - 2
    IN  IF size > 65535 THEN CompressEnd([s EXCEPT !.dst = ended], "TryFromInt")
        ELSE [s EXCEPT !.pc = "block", !.block_number = s.block_number + 1,
                       !.dst = CursorWrite(ended, s.compressed_block_position,
                                           <<size % 256, size \div 256>>)]

\* the loop guards of compress
CompressInCommand(s) ==
    s.command_number < 4 /\ s.uncompressed_block_offset < s.uncompressed_block_size

\* one step of compress from the locals s
CompressStep(s, checks) ==
    CASE s.pc = "header" -> CompressHeaderStep(s, checks)
      [] s.pc = "block" /\ s.block_number < s.num_blocks -> CompressBlockStartStep(s)
      [] s.pc = "block" /\ s.block_number >= s.num_blocks -> CompressEnd(s, "Ok")
      [] s.pc = "while" /\ s.uncompressed_block_offset < s.uncompressed_block_size ->
            CompressGroupStartStep(s)
      [] s.pc = "while" /\ s.uncompressed_block_offset >= s.uncompressed_block_size ->
            CompressBlockEndStep(s)
      [] s.pc = "command" /\ CompressInCommand(s) -> CompressCommandStep(s)
      [] s.pc = "command" /\ ~CompressInCommand(s) -> CompressGroupEndStep(s)
      [] OTHER -> s

\* compress run to its return
RECURSIVE CompressRun(_, _)
CompressRun(s, checks) ==
    IF s.pc \in {"done", "idle"} THEN s ELSE CompressRun(CompressStep(s, checks), checks)

\* compress(src, &mut Cursor::new(Vec::new()))
compress(src, checks) == CompressRun(CompressEntry(src), checks)

----------------------------------------------------------------------------
(* Inputs *)

\* byte values of the enumerated buffers
Alphabet == {0, 1, 255}

\* every buffer over Alphabet of at most MaxLen bytes
ShortInputs == UNION {[1..n -> Alphabet] : n \in 0..MaxLen}

\* n times the byte v
RunInput(n, v) == [i \in 1..n |-> v]

\* 0, 1, .., q-1, 0, 1, ..
PeriodicInput(n, q) == [i \in 1..n |-> (i - 1) % q]

\* a run of n bytes after one other byte
TailRunInput(n) == [i \in 1..(n + 1) |-> IF i = 1 THEN 1 ELSE 0]

\* the bytes 1, 2, 3, 4 at position `first` and again at position 4096, in a
\* buffer of 4100 bytes that are runs of 200 bytes (254s, then 255s, ..)
\* elsewhere: a match 4096 - first bytes back
FarInput(first) ==
    [i \in 1..4100 |->
        IF i - 1 \in first..(first + 3) THEN i - first
        ELSE IF i - 1 >= 4096 THEN i - 4096
        ELSE 254 + (((i - 1) \div 200) % 2)]

\* the bytes 0 0 1, a run of n more 0s, and a 1: what is left of the run
\* after 257 bytes has a match at the start of the buffer that goes past it
LeftoverInput(n) == <<0, 0, 1>> \o RunInput(n, 0) \o <<1>>

\* buffers with long runs, long matches and more than one block
LongInputs ==
    {LeftoverInput(n) : n \in {258, 259}} \cup
    {FarInput(first) : first \in {0, 1}} \cup
    {RunInput(n, 255) : n \in {255, 256, 257, 258, 259, 511, 512, 513, 514, 771, 1025}}
    \cup {TailRunInput(n) : n \in {255, 256, 257, 258, 510, 511, 512}}
    \cup {PeriodicInput(n, q) : n \in {40, 511, 512, 513, 530}, q \in {2, 3, 5, 19}}

Inputs == ShortInputs \cup LongInputs

\* a command of a crafted stream: <<code, operand bytes>>
CraftCopy == {<<1, <<1>>>>}
CraftLz77 == {<<2, <<dist, len - 2>>>> : dist \in 0..3, len \in 2..3} \cup {<<2, <<0, 16>>>>}
CraftRle == {<<3, <<n, 7>>>> : n \in {0, 253, 254, 255}}
CraftCommands == CraftCopy \cup CraftLz77 \cup CraftRle

\* the lists of at most n crafted commands
CraftLists(n) == UNION {[1..k -> CraftCommands] : k \in 0..n}

RECURSIVE CraftOperands(_)
CraftOperands(cmds) ==
    IF cmds = <<>> THEN <<>> ELSE cmds[1][2] \o CraftOperands(Tail(cmds))

RECURSIVE CraftGroupByte(_)
CraftGroupByte(cmds) ==
    IF cmds = <<>> THEN 0 ELSE cmds[1][1] + 4 * CraftGroupByte(Tail(cmds))

\* the bytes of a block body holding the commands, closed by an EndBlock code
RECURSIVE CraftBody(_)
CraftBody(cmds) ==
    IF Len(cmds) < 4 THEN <<CraftGroupByte(cmds)>> \o CraftOperands(cmds)
    ELSE <<CraftGroupByte(SubSeq(cmds, 1, 4))>> \o CraftOperands(SubSeq(cmds, 1, 4))
         \o CraftBody(SubSeq(cmds, 5, Len(cmds)))

\* the number of bytes the format says the commands append
RECURSIVE CraftSize(_)
CraftSize(cmds) ==
    IF cmds = <<>> THEN 0
    ELSE (CASE cmds[1][1] = 1 -> 1
            [] cmds[1][1] = 2 -> (cmds[1][2][2] % 16) + 2
            [] cmds[1][1] = 3 -> cmds[1][2][1] + 2) + CraftSize(Tail(cmds))

\* a block: the size prefix (off by delta) and the body
CraftBlock(cmds, delta) ==
    LET body == CraftBody(cmds)
    IN <<(Len(body) + delta) % 256, (Len(body) + delta) \div 256>> \o body

\* a one-block stream declaring `size` uncompressed bytes
CraftStream(size, cmds, delta) ==
    encode_var(Wide(size)).bytes \o <<0>> \o CraftBlock(cmds, delta)

\* a two-block stream
CraftStream2(size, cmds1, delta1, cmds2, delta2) ==
    encode_var(Wide(size)).bytes \o <<1>> \o CraftBlock(cmds1, delta1)
    \o CraftBlock(cmds2, delta2)

Prefixes(stream) == {SubSeq(stream, 1, n) : n \in 0..Len(stream)}

\* a block whose commands byte holds the commands, an EndBlock code after
\* them, and the bits of `above` in the slots after the EndBlock code; no
\* operand is there for the codes of `above`
CraftBlockAbove(cmds, above) ==
    LET body == <<CraftGroupByte(cmds) + above * Pow2(2 * (Len(cmds) + 1))>>
                \o CraftOperands(cmds)
    IN <<Len(body) % 256, Len(body) \div 256>> \o body

\* the values of the slots after the EndBlock code that follows n commands
AboveBits(n) == 0..(Pow2(2 * (3 - n)) - 1)

\* a two-block stream whose first block has codes after its EndBlock code
CraftStreamAbove(cmds1, above, cmds2) ==
    encode_var(Wide(CraftSize(cmds1) + CraftSize(cmds2))).bytes \o <<1>>
    \o CraftBlockAbove(cmds1, above) \o CraftBlock(cmds2, 0)

\* the commands of the blocks of two-block streams
CraftSmall == {<<>>, <<<<1, <<1>>>>>>, <<<<3, <<0, 7>>>>>>, <<<<3, <<0, 7>>>>, <<2, <<2, 0>>>>>>}

\* Copy 1, Copy 2, Copy 3, Lz77(distance 3, length 10)
OverlapCommands == <<<<1, <<1>>>>, <<1, <<2>>>>, <<1, <<3>>>>, <<2, <<3, 8>>>>>>

\* compressed streams given to decompress: one block of crafted commands with
\* a right or wrong size prefix and a right or wrong declared size, two-block
\* streams, an Rle of every count, a self-overlapping Lz77, every
\* truncation of the well-formed ones, and two-block streams with codes
\* after the EndBlock code of the first block
Streams ==
    {CraftStream(CraftSize(cmds) + ds, cmds, delta) :
        cmds \in CraftLists(MaxCmds), ds \in {0, 1}, delta \in {0, 1}}
    \cup {CraftStream2(CraftSize(c1) + CraftSize(c2) + ds, c1, d1, c2, d2) :
        c1 \in CraftSmall, c2 \in CraftSmall, ds \in {0, 1}, d1 \in {0, 1}, d2 \in {0, 1}}
    \cup {CraftStream(n + 2, <<<<3, <<n, 7>>>>>>, 0) : n \in 0..255}
    \cup {CraftStream(13, OverlapCommands, 0)}
    \cup UNION {Prefixes(CraftStream(CraftSize(cmds), cmds, 0)) : cmds \in CraftLists(MaxCmds)}
    \cup UNION {Prefixes(CraftStream2(CraftSize(c1) + CraftSize(c2), c1, 0, c2, 0)) :
        c1 \in CraftSmall, c2 \in CraftSmall}
    \cup UNION {{CraftStreamAbove(c1, above, c2) : above \in AboveBits(Len(c1))} :
        c1 \in CraftSmall, c2 \in CraftSmall}

RECURSIVE WidePow2(_)
WidePow2(k) == IF k < 16 THEN [hi |-> 0, lo |-> Pow2(k)] ELSE [hi |-> Pow2(k - 16), lo |-> 0]

\* input lengths of the header computation: around every power of two up to 2^33
HeaderSizes ==
    {Wide(n) : n \in 0..70}
    \cup {WidePow2(k) : k \in 0..33}
    \cup {[hi |-> WidePow2(k).hi, lo |-> WidePow2(k).lo + 1] : k \in 1..33}
    \cup {IF k < 16 THEN Wide(Pow2(k) - 1) ELSE [hi |-> Pow2(k - 16) - 1, lo |-> 65535] :
            k \in 1..33}

----------------------------------------------------------------------------
(* State machine *)

CompressIdle == [CompressEntry(<<>>) EXCEPT !.pc = "idle"]
DecompressIdle == [DecompressEntry(<<>>, FALSE) EXCEPT !.pc = "idle"]
HeaderIdle == [pc |-> "idle", size |-> Wide(0), header |-> CompressHeader(Wide(1), FALSE)]
MiscIdle == [pc |-> "idle"]

\* compress is called on an input buffer
Init ==
    /\ overflow_checks \in BOOLEAN
    /\ c \in {CompressEntry(src) : src \in Inputs}
    /\ d = DecompressIdle
    /\ h = HeaderIdle
    /\ m = MiscIdle

\* decompress is called on a compressed stream
InitDecode ==
    /\ overflow_checks \in BOOLEAN
    /\ c = CompressIdle
    /\ d \in {DecompressEntry(src, strict) : src \in Streams, strict \in BOOLEAN}
    /\ h = HeaderIdle
    /\ m = MiscIdle

\* compress is called on a buffer of which only the length matters
InitHeader ==
    /\ overflow_checks \in BOOLEAN
    /\ c = CompressIdle
    /\ d = DecompressIdle
    /\ h \in {[pc |-> "header", size |-> size, header |-> HeaderIdle.header] :
                size \in HeaderSizes}
    /\ m = MiscIdle

C_Header ==
    /\ c.pc = "header"
    /\ c' = CompressHeaderStep(c, overflow_checks)
    /\ UNCHANGED <<overflow_checks, d, h, m>>

C_BlockStart ==
    /\ c.pc = "block" /\ c.block_number < c.num_blocks
    /\ c' = CompressBlockStartStep(c)
    /\ UNCHANGED <<overflow_checks, d, h, m>>

C_GroupStart ==
    /\ c.pc = "while" /\ c.uncompressed_block_offset < c.uncompressed_block_size
    /\ c' = CompressGroupStartStep(c)
    /\ UNCHANGED <<overflow_checks, d, h, m>>

C_Command ==
    /\ c.pc = "command" /\ CompressInCommand(c)
    /\ c' = CompressCommandStep(c)
    /\ UNCHANGED <<overflow_checks, d, h, m>>

C_GroupEnd ==
    /\ c.pc = "command" /\ ~CompressInCommand(c)
    /\ c' = CompressGroupEndStep(c)
    /\ UNCHANGED <<overflow_checks, d, h, m>>

C_BlockEnd ==
    /\ c.pc = "while" /\ c.uncompressed_block_offset >= c.uncompressed_block_size
    /\ c' = CompressBlockEndStep(c)
    /\ UNCHANGED <<overflow_checks, d, h, m>>

C_Return ==
    /\ c.pc = "block" /\ c.block_number >= c.num_blocks
    /\ c' = CompressEnd(c, "Ok")
    /\ UNCHANGED <<overflow_checks, d, h, m>>

\* MaybeCompressedData::to_uncompressed on Compressed(compress output)
ToUncompressed ==
    /\ c.pc = "done" /\ c.result = "Ok" /\ d.pc = "idle"
    /\ \E strict \in BOOLEAN : d' = DecompressEntry(c.dst, strict)
    /\ UNCHANGED <<overflow_checks, c, h, m>>

\* what compress returned, held after the call
Recompressed(buf) == [pc |-> "recompressed", result |-> buf.result, dst |-> buf.dst]

\* MaybeCompressedData::to_compressed on Uncompressed(what strict decompress
\* returned), as tests/rebuild.rs does after to_uncompressed(true)
ToCompressed ==
    /\ d.pc = "done" /\ d.result = "Ok" /\ d.strict /\ m.pc = "idle"
    /\ m' = Recompressed(compress(d.dst, overflow_checks))
    /\ UNCHANGED <<overflow_checks, c, d, h>>

D_Header ==
    /\ d.pc = "header"
    /\ d' = DecompressHeaderStep(d)
    /\ UNCHANGED <<overflow_checks, c, h, m>>

D_BlockStart ==
    /\ d.pc = "block" /\ d.block < d.num_blocks
    /\ d' = DecompressBlockStartStep(d)
    /\ UNCHANGED <<overflow_checks, c, h, m>>

D_Group ==
    /\ d.pc = "group"
    /\ d' = DecompressGroupStep(d)
    /\ UNCHANGED <<overflow_checks, c, h, m>>

D_Command ==
    /\ d.pc = "command"
    /\ d' = DecompressCommandStep(d, overflow_checks)
    /\ UNCHANGED <<overflow_checks, c, h, m>>

D_BlockEnd ==
    /\ d.pc = "block_end"
    /\ d' = DecompressBlockEndStep(d)
    /\ UNCHANGED <<overflow_checks, c, h, m>>

D_Return ==
    /\ d.pc = "block" /\ d.block >= d.num_blocks
    /\ d' = DecompressReturnStep(d)
    /\ UNCHANGED <<overflow_checks, c, h, m>>

H_Header ==
    /\ h.pc = "header"
    /\ h' = [h EXCEPT !.pc = "done", !.header = CompressHeader(h.size, overflow_checks)]
    /\ UNCHANGED <<overflow_checks, c, d, m>>

NextDecode ==
    \/ D_Header \/ D_BlockStart \/ D_Group \/ D_Command \/ D_BlockEnd \/ D_Return

Next ==
    \/ C_Header \/ C_BlockStart \/ C_GroupStart \/ C_Command \/ C_GroupEnd
    \/ C_BlockEnd \/ C_Return
    \/ ToUncompressed \/ ToCompressed
    \/ D_Header \/ D_BlockStart \/ D_Group \/ D_Command \/ D_BlockEnd \/ D_Return

NextHeader == H_Header

\* compress, then decompress of what it wrote
Spec == Init /\ [][Next]_vars

\* decompress of crafted streams
SpecDecode == InitDecode /\ [][NextDecode]_vars

\* the header lines of compress on lengths up to 2^33
SpecHeader == InitHeader /\ [][NextHeader]_vars

\* compress and decompress, on buffers and on crafted streams
SpecAll == (Init \/ InitDecode) /\ [][Next]_vars

----------------------------------------------------------------------------
(* The operand bytes of an Lz77 command, written by compress            *)
(* (compression.rs:177-180) and read back by decompress (lines 66-70)   *)

\* an Lz77 command of every offset and length that the two operand bytes hold
InitLz77 ==
    /\ overflow_checks \in BOOLEAN
    /\ c = CompressIdle
    /\ d = DecompressIdle
    /\ h = HeaderIdle
    /\ m \in {[pc |-> "pack", lz77_best_offset |-> offset, lz77_best_length |-> length] :
                offset \in MinLz77Offset..MaxLz77Offset, length \in 2..MaxLz77Length}

\* compress writes the operands (lines 177-180)
L_Pack ==
    /\ m.pc = "pack"
    /\ m' = [pc |-> "unpack", lz77_best_offset |-> m.lz77_best_offset,
             lz77_best_length |-> m.lz77_best_length,
             buf |-> Lz77Operands(m.lz77_best_offset, m.lz77_best_length)]
    /\ UNCHANGED <<overflow_checks, c, d, h>>

\* decompress reads them (lines 67-70)
L_Unpack ==
    /\ m.pc = "unpack"
    /\ m' = [pc |-> "unpacked", lz77_best_offset |-> m.lz77_best_offset,
             lz77_best_length |-> m.lz77_best_length, buf |-> m.buf,
             distance |-> Lz77Distance(m.buf[1], m.buf[2]),
             length |-> Lz77Length(m.buf[2])]
    /\ UNCHANGED <<overflow_checks, c, d, h>>

NextLz77 == L_Pack \/ L_Unpack

\* every Lz77 command packed, then unpacked
SpecLz77 == InitLz77 /\ [][NextLz77]_vars

----------------------------------------------------------------------------
(* The varint: encode_var (misc.rs:43-58), then read_varint (misc.rs:27-37) *)
(* on the bytes it returned, followed by other bytes of the stream          *)

\* u32 values given to encode_var: every value up to MaxVarint, the values
\* around the powers of two, and values with mixed bits in both halves
VarintValues ==
    {Wide(n) : n \in 0..MaxVarint}
    \cup {v \in HeaderSizes : FitsU32(v)}
    \cup {[hi |-> hi, lo |-> lo] : hi \in {0, 1, 10, 341, 682, 1023, 1024, 65535},
                                  lo \in {4660, 21845, 43690, 65535}}

InitVarint ==
    /\ overflow_checks \in BOOLEAN
    /\ c = CompressIdle
    /\ d = DecompressIdle
    /\ h = HeaderIdle
    /\ m \in {[pc |-> "encode", self |-> v] : v \in VarintValues}

\* self.encode_var()
V_Encode ==
    /\ m.pc = "encode"
    /\ LET e == encode_var(m.self)
       IN  m' = IF e.overflow /\ overflow_checks
                THEN [pc |-> "done", self |-> m.self, result |-> "Panic"]
                ELSE [pc |-> "read", self |-> m.self, result |-> "Ok",
                      encoded |-> e.bytes, wrapped |-> e.overflow]
    /\ UNCHANGED <<overflow_checks, c, d, h>>

\* read_varint on a reader that holds the encoded bytes and what follows them
V_Read ==
    /\ m.pc = "read"
    /\ \E rest \in {<<>>, <<255>>, <<0, 1>>} :
          m' = [pc |-> "done", self |-> m.self, result |-> "Ok", encoded |-> m.encoded,
                wrapped |-> m.wrapped, rest |-> rest,
                read |-> read_varint(m.encoded \o rest, 0)]
    /\ UNCHANGED <<overflow_checks, c, d, h>>

NextVarint == V_Encode \/ V_Read

\* encode_var, then read_varint of its bytes
SpecVarint == InitVarint /\ [][NextVarint]_vars

----------------------------------------------------------------------------
(* DataWithOffsetTable: misc.rs:129-213 *)

\* write_u32::<LittleEndian>
U32Bytes(n) ==
    <<n % 256, (n \div 256) % 256, (n \div 65536) % 256, (n \div 16777216) % 256>>

\* read_u32::<LittleEndian> at position pos (the files of the model keep
\* the top byte below 128)
ReadU32(inp, pos) ==
    inp[pos + 1] + 256 * inp[pos + 2] + 65536 * inp[pos + 3] + 16777216 * inp[pos + 4]

\* lines 157-159: the offsets after the first, read one by one
RECURSIVE ReadOffsets(_, _, _, _)
ReadOffsets(inp, pos, left, offsets) ==
    IF left <= 0 THEN [ok |-> TRUE, offsets |-> offsets, pos |-> pos]
    ELSE IF pos + 4 > Len(inp) THEN [ok |-> FALSE, offsets |-> offsets, pos |-> Len(inp)]
    ELSE ReadOffsets(inp, pos + 4, left - 1, Append(offsets, ReadU32(inp, pos)))

\* lines 168-177: one chunk for each pair of neighbouring offsets.  A next
\* offset below the current one underflows the u32 subtraction: a panic
\* under overflow checks, and otherwise a length of 2^32 - difference, more
\* than any file of the model holds, so that read_exact fails with the
\* reader at the end of the input.
RECURSIVE ReadChunks(_, _, _, _, _, _)
ReadChunks(inp, pos, offsets, i, chunks, checks) ==
    IF i >= Len(offsets) THEN [result |-> "Ok", chunks |-> chunks, pos |-> pos]
    ELSE LET current_offset == offsets[i]
             next_offset == offsets[i + 1]
             length == next_offset - current_offset
         IN  IF next_offset < current_offset
             THEN IF checks THEN [result |-> "Panic", chunks |-> chunks, pos |-> pos]
                  ELSE [result |-> "Io", chunks |-> chunks, pos |-> Len(inp)]
             ELSE IF pos + length > Len(inp)
             THEN [result |-> "Io", chunks |-> chunks, pos |-> Len(inp)]
             ELSE ReadChunks(inp, pos + length, offsets, i + 1,
                             Append(chunks, SubSeq(inp, pos + 1, pos + length)), checks)

\* DataWithOffsetTable::from_reader, lines 150-185
from_reader(inp, checks) ==
    LET failed(result) == [result |-> result, chunks |-> <<>>, footer |-> <<>>]
    IN  IF Len(inp) < 4 THEN failed("Io")
        ELSE
        LET first_offset == ReadU32(inp, 0)
            num_offsets == first_offset \div 4
            padding == first_offset % 4
            table == ReadOffsets(inp, 4, num_offsets - 1, <<first_offset>>)
        IN  IF ~table.ok THEN failed("Io")
            ELSE IF table.pos + padding > Len(inp) THEN failed("Io")
            ELSE LET read == ReadChunks(inp, table.pos + padding, table.offsets, 1,
                                        <<>>, checks)
                 IN  IF read.result # "Ok" THEN failed(read.result)
                     ELSE [result |-> "Ok", chunks |-> read.chunks,
                           footer |-> SubSeq(inp, read.pos + 1, Len(inp))]

\* utils.rs:15-17
necessary_padding_for(number, alignment) == (alignment - (number % alignment)) % alignment

\* utils.rs:25-30, on a Vec<u8>
align_to_elements(self, alignment) ==
    self \o Repeat(0, necessary_padding_for(Len(self), alignment))

\* the chunk_alignment argument of to_writer: None, or Some(value)
NoAlignment == [some |-> FALSE, value |-> 1]
Alignments == {NoAlignment, [some |-> TRUE, value |-> 4]}

\* lines 196-201: the chunks as the first loop leaves them in self
AlignedChunks(chunks, chunk_alignment) ==
    [i \in 1..Len(chunks) |->
        IF chunk_alignment.some THEN align_to_elements(chunks[i], chunk_alignment.value)
        ELSE chunks[i]]

\* the offsets written by the first loop, from current_offset on
RECURSIVE OffsetTable(_, _, _)
OffsetTable(chunks, i, current_offset) ==
    IF i > Len(chunks) THEN <<>>
    ELSE U32Bytes(current_offset + Len(chunks[i]))
         \o OffsetTable(chunks, i + 1, current_offset + Len(chunks[i]))

RECURSIVE Concat(_)
Concat(chunks) == IF chunks = <<>> THEN <<>> ELSE chunks[1] \o Concat(Tail(chunks))

\* to_writer with a first offset of chunks.len() * 4
to_writerShortTable(self, chunk_alignment, write_footer) ==
    LET chunks == AlignedChunks(self.chunks, chunk_alignment)
        current_offset == Len(chunks) * 4
    IN  [chunks |-> chunks,
         out |-> U32Bytes(current_offset) \o OffsetTable(chunks, 1, current_offset)
                 \o Concat(chunks) \o (IF write_footer THEN self.footer ELSE <<>>)]

\* DataWithOffsetTable::to_writer, lines 189-213: what is written, and the
\* chunks of self afterwards
to_writer(self, chunk_alignment, write_footer) ==
    LET chunks == AlignedChunks(self.chunks, chunk_alignment)
        current_offset == (Len(chunks) + 1) * 4
    IN  [chunks |-> chunks,
         out |-> U32Bytes(current_offset) \o OffsetTable(chunks, 1, current_offset)
                 \o Concat(chunks) \o (IF write_footer THEN self.footer ELSE <<>>)]

\* the offsets first, first + diffs[1], first + diffs[1] + diffs[2], ..
RECURSIVE OffsetsFrom(_, _)
OffsetsFrom(first, diffs) ==
    IF diffs = <<>> THEN <<first>>
    ELSE <<first>> \o OffsetsFrom(first + diffs[1], Tail(diffs))

\* a file: the table of the offsets, `padding` bytes 9, for every step
\* between offsets that many bytes (10 + i in chunk i), and the footer
TableFile(first, diffs, padding, footer) ==
    Concat([i \in 1..(Len(diffs) + 1) |-> U32Bytes(OffsetsFrom(first, diffs)[i])])
    \o Repeat(9, padding)
    \o Concat([i \in 1..Len(diffs) |-> Repeat(10 + i, Max(diffs[i], 0))])
    \o footer

\* the steps between the offsets of a file: chunks of 0, 1 or 3 bytes, and
\* a next offset below the current one
DiffLists == UNION {[1..n -> {-1, 0, 1, 3}] : n \in 0..MaxChunks}

\* files given to from_reader: tables of up to MaxChunks chunks whose first
\* offset is the length of the table plus 0..3, files whose first offset is
\* below 4, and every truncation of them
TableFiles ==
    UNION {Prefixes(TableFile(4 * (Len(diffs) + 1) + padding, diffs, padding, footer)) :
            diffs \in DiffLists, padding \in 0..3, footer \in {<<>>, <<77, 78>>}}
    \cup UNION {Prefixes(U32Bytes(first) \o Repeat(9, first) \o <<77>>) : first \in 0..3}

InitTable ==
    /\ overflow_checks \in BOOLEAN
    /\ c = CompressIdle
    /\ d = DecompressIdle
    /\ h = HeaderIdle
    /\ m \in {[pc |-> "from_reader", inp |-> inp] : inp \in TableFiles}

\* DataWithOffsetTable::from_reader(inp)
T_FromReader ==
    /\ m.pc = "from_reader"
    /\ LET value == from_reader(m.inp, overflow_checks)
       IN  m' = [pc |-> IF value.result = "Ok" THEN "to_writer" ELSE "done",
                 inp |-> m.inp, result |-> value.result,
                 chunks |-> value.chunks, footer |-> value.footer]
    /\ UNCHANGED <<overflow_checks, c, d, h>>

\* value.to_writer(out, chunk_alignment, write_footer) into an empty Vec
T_ToWriter ==
    /\ m.pc = "to_writer"
    /\ \E chunk_alignment \in Alignments, write_footer \in BOOLEAN :
          LET written == to_writer(m, chunk_alignment, write_footer)
          IN  m' = [pc |-> "done", inp |-> m.inp, result |-> "Ok",
                    chunks |-> written.chunks, footer |-> m.footer,
                    parsed |-> m.chunks,
                    chunk_alignment |-> chunk_alignment, write_footer |-> write_footer,
                    out |-> written.out]
    /\ UNCHANGED <<overflow_checks, c, d, h>>

NextTable == T_FromReader \/ T_ToWriter

\* from_reader on a file, then to_writer of the value
SpecTable == InitTable /\ [][NextTable]_vars

----------------------------------------------------------------------------
(* FieldMaps: map.rs:445-611.  An overlay is modelled by the u32 values     *)
(* found from each of the addresses that the code seeks to.  The maps of    *)
(* the model are all alike: a Vec<FieldMap> is its length and the FieldMap  *)
(* it holds that many times, and a chunk table is the number of maps it has *)
(* entries for and the five entries (wide numbers, as they may be u32::MAX) *)
(* of each.                                                                 *)

\* consts.rs:27
NUMBER_OF_FIELD_MAPS == 681

\* consts.rs:16
STANDARD_FILE_ALIGNMENT == 512

\* consts.rs:17
STANDARD_DATA_WITH_OFFSET_TABLE_ALIGNMENT == 4

U32Max == [hi |-> 65535, lo |-> 65535]

\* utils.rs:42-46, to usize: None for u32::MAX
u32_or_max_to_option_try_into(value) ==
    IF value = U32Max THEN [some |-> FALSE, value |-> 0]
    ELSE [some |-> TRUE, value |-> value.hi * 65536 + value.lo]

\* utils.rs:52-56, from usize
option_to_u32_or_max_try_into(value) ==
    IF value.some THEN Wide(value.value) ELSE U32Max

\* map.rs:479-482 and 483-486: the length of an offset table and then the
\* table, without its first entry, from the u32 values at the address
ReadOffsetTable(region) ==
    IF region = <<>> THEN [result |-> "Io", table |-> <<>>]
    ELSE IF region[1] \div 4 = 0 THEN [result |-> "Panic", table |-> <<>>]
    ELSE IF Len(region) < region[1] \div 4 THEN [result |-> "Io", table |-> <<>>]
    ELSE [result |-> "Ok", table |-> SubSeq(region, 2, region[1] \div 4)]

\* map.rs:520-533: a FieldMap for every five entries of the chunk table
MapsOf(chunk_table) ==
    [len |-> NUMBER_OF_FIELD_MAPS,
     map |-> [tileset_indexes |-> [k \in 1..3 |->
                                     u32_or_max_to_option_try_into(chunk_table.entries[k])],
              map_chunk_index |-> chunk_table.entries[4].hi * 65536
                                  + chunk_table.entries[4].lo,
              treasure_data_index |->
                  u32_or_max_to_option_try_into(chunk_table.entries[5])]]

\* MaybeCompressedData::Compressed(data) and ::Uncompressed(data)
Compressed(data) == [compressed |-> TRUE, data |-> data]
Uncompressed(data) == [compressed |-> FALSE, data |-> data]

\* FieldMaps::from_files, map.rs:473-535
from_files(fmapdata, treasure_info, overlay3, overlay4, checks) ==
    LET failed(result) == [result |-> result]
        fmapdata_offset_table == ReadOffsetTable(overlay3.offset_table)
        treasure_info_offset_table == ReadOffsetTable(overlay4.offset_table)
    IN  IF fmapdata_offset_table.result # "Ok" THEN failed(fmapdata_offset_table.result)
        ELSE IF treasure_info_offset_table.result # "Ok"
        THEN failed(treasure_info_offset_table.result)
        ELSE IF overlay3.chunk_table.len < NUMBER_OF_FIELD_MAPS THEN failed("Io")
        ELSE
        LET fm == ReadChunks(fmapdata, 0, fmapdata_offset_table.table, 1, <<>>, checks)
            tr == ReadChunks(treasure_info, 0, treasure_info_offset_table.table, 1, <<>>,
                             checks)
        IN  IF fm.result # "Ok" THEN failed(fm.result)
            ELSE IF tr.result # "Ok" THEN failed(tr.result)
            ELSE [result |-> "Ok",
                  fmapdata_chunks |-> [i \in 1..Len(fm.chunks) |-> Compressed(fm.chunks[i])],
                  fmapdata_padding |-> SubSeq(fmapdata, fm.pos + 1, Len(fmapdata)),
                  treasure_data |-> tr.chunks,
                  treasure_info_padding |-> SubSeq(treasure_info, tr.pos + 1,
                                                   Len(treasure_info)),
                  maps |-> MapsOf(overlay3.chunk_table)]

\* the locals of to_files when it is called with empty fmapdata and
\* treasure_info outputs and the two overlays; read_from is the fmapdata and
\* treasure_info files that self was read from, if it was
ToFilesEntry(self, align_files, overlay3, overlay4, read_from) ==
    [pc |-> "to_files", result |-> "Running", self |-> self, align_files |-> align_files,
     read_from |-> read_from,
     fmapdata |-> <<>>, treasure_info |-> <<>>, overlay3 |-> overlay3, overlay4 |-> overlay4,
     chunk |-> 0, current_fmapdata_offset |-> 0, current_treasure_info_offset |-> 0]

ToFilesEnd(s, result) == [s EXCEPT !.pc = "done", !.result = result]

\* map.rs:545-553
ToFilesBeginStep(s) ==
    IF s.self.maps.len # NUMBER_OF_FIELD_MAPS THEN ToFilesEnd(s, "IncorrectNumberOfMaps")
    ELSE [s EXCEPT !.pc = "fmapdata", !.chunk = 0, !.current_fmapdata_offset = 0,
                   !.overlay3.offset_table =
                       CursorWrite(s.overlay3.offset_table, 0,
                                   <<(Len(s.self.fmapdata_chunks) + 2) * 4, 0>>)]

\* misc.rs:99-101: what compress returned and buf.into_inner()
CompressedBuf(buf) == [result |-> buf.result, data |-> buf.dst]

\* MaybeCompressedData::to_compressed, misc.rs:94-103
to_compressed(value, checks) ==
    IF value.compressed THEN [result |-> "Ok", data |-> value.data]
    ELSE CompressedBuf(compress(value.data, checks))

\* map.rs:554-562: one iteration of `for chunk in &self.fmapdata_chunks`,
\* where data is what chunk.to_compressed() returns
ToFilesFmapdataChunkStep(s, data) ==
    LET padding == necessary_padding_for(Len(data.data),
                                         STANDARD_DATA_WITH_OFFSET_TABLE_ALIGNMENT)
        offset == s.current_fmapdata_offset + Len(data.data) + padding
    IN  IF data.result # "Ok" THEN ToFilesEnd(s, data.result)
        ELSE [s EXCEPT !.chunk = s.chunk + 1,
                       !.fmapdata = s.fmapdata \o data.data \o Repeat(0, padding),
                       !.current_fmapdata_offset = offset,
                       !.overlay3.offset_table =
                           CursorWrite(s.overlay3.offset_table, s.chunk + 2, <<offset>>)]

\* map.rs:563-577: the end of the fmapdata file and the head of the
\* treasure offset table
ToFilesFmapdataEndStep(s) ==
    [s EXCEPT !.pc = "treasure", !.chunk = 0, !.current_treasure_info_offset = 0,
              !.fmapdata = s.fmapdata \o
                  (IF s.align_files
                   THEN Repeat(0, necessary_padding_for(s.current_fmapdata_offset,
                                                        STANDARD_FILE_ALIGNMENT))
                   ELSE s.self.fmapdata_padding),
              !.overlay4.offset_table =
                  CursorWrite(s.overlay4.offset_table, 0,
                              <<(Len(s.self.treasure_data) + 2) * 4, 0>>)]

\* map.rs:578-585: one iteration of `for chunk in &self.treasure_data`; the
\* padding of line 582 is written to fmapdata
ToFilesTreasureChunkStep(s) ==
    LET chunk == s.self.treasure_data[s.chunk + 1]
        padding == necessary_padding_for(Len(chunk),
                                         STANDARD_DATA_WITH_OFFSET_TABLE_ALIGNMENT)
        offset == s.current_treasure_info_offset + Len(chunk) + padding
    IN  [s EXCEPT !.chunk = s.chunk + 1,
                  !.treasure_info = s.treasure_info \o chunk,
                  !.fmapdata = s.fmapdata \o Repeat(0, padding),
                  !.current_treasure_info_offset = offset,
                  !.overlay4.offset_table =
                      CursorWrite(s.overlay4.offset_table, s.chunk + 2, <<offset>>)]

\* map.rs:586-596: the end of the treasure_info file
ToFilesTreasureEndStep(s) ==
    [s EXCEPT !.pc = "maps",
              !.treasure_info = s.treasure_info \o
                  (IF s.align_files
                   THEN Repeat(0, necessary_padding_for(s.current_treasure_info_offset,
                                                        STANDARD_FILE_ALIGNMENT))
                   ELSE s.self.treasure_info_padding)]

\* map.rs:598-610: the chunk table, five entries for every map
ToFilesMapsStep(s) ==
    LET map == s.self.maps.map
        entry(k) == IF k <= 3 THEN option_to_u32_or_max_try_into(map.tileset_indexes[k])
                    ELSE IF k = 4 THEN Wide(map.map_chunk_index)
                    ELSE option_to_u32_or_max_try_into(map.treasure_data_index)
    IN  [s EXCEPT !.pc = "done", !.result = "Ok",
                  !.overlay3.chunk_table =
                      [len |-> Max(s.overlay3.chunk_table.len, s.self.maps.len),
                       entries |-> [k \in 1..5 |-> entry(k)]]]

\* the steps between the offsets of the files of the model: chunks of 0, 1
\* or 4 bytes, and a next offset below the current one
FieldDiffLists ==
    UNION {[1..n -> {0, 1, 4}] : n \in 0..MaxChunks} \cup {<<4, -3>>}

\* an offset table in an overlay: its length (off by `delta`), the offsets
\* from 0 on, and the u32 that follows the table in the overlay
OffsetRegion(diffs, delta) ==
    <<(Len(diffs) + 2) * 4 + delta>> \o OffsetsFrom(0, diffs) \o <<99>>

\* a data file: for every step that many bytes (10 + i in chunk i), then
\* the bytes after the last chunk
DataFile(diffs, padding) ==
    Concat([i \in 1..Len(diffs) |-> Repeat(10 + i, Max(diffs[i], 0))]) \o padding

\* the chunk table of an overlay 3, with entries for `len` maps
ChunkTable(len) ==
    [len |-> len, entries |-> <<Wide(0), U32Max, U32Max, Wide(1), U32Max>>]

\* the four files given to from_files
FieldMapsFiles ==
    {[fmapdata |-> DataFile(diffs3, <<7>>),
      treasure_info |-> DataFile(diffs4, <<8, 8>>),
      overlay3 |-> [offset_table |-> OffsetRegion(diffs3, 0),
                    chunk_table |-> ChunkTable(NUMBER_OF_FIELD_MAPS)],
      overlay4 |-> [offset_table |-> OffsetRegion(diffs4, delta)]] :
        diffs3 \in FieldDiffLists, diffs4 \in FieldDiffLists, delta \in {0}}
    \cup {[fmapdata |-> <<7>>, treasure_info |-> DataFile(<<4>>, <<>>),
           overlay3 |-> [offset_table |-> OffsetRegion(<<>>, 0), chunk_table |-> chunk_table],
           overlay4 |-> [offset_table |-> region]] :
            region \in {<<>>, <<0>>, <<3, 0>>, <<12, 0>>, <<12, 0, 4>>},
            chunk_table \in {ChunkTable(NUMBER_OF_FIELD_MAPS),
                             ChunkTable(NUMBER_OF_FIELD_MAPS - 1)}}

\* FieldMaps values built in memory
FieldMapsValues ==
    {[fmapdata_chunks |-> chunks, fmapdata_padding |-> <<7>>,
      treasure_data |-> treasure_data, treasure_info_padding |-> <<8, 8>>,
      maps |-> [MapsOf(ChunkTable(maps_len)) EXCEPT !.len = maps_len]] :
        chunks \in UNION {[1..n -> {Compressed(<<5>>), Uncompressed(<<1>>),
                                     Uncompressed(<<>>)}] : n \in 0..MaxChunks},
        treasure_data \in {<<>>, <<<<1>>>>, <<<<1, 2, 3, 4>>, <<>>>>},
        maps_len \in {NUMBER_OF_FIELD_MAPS, NUMBER_OF_FIELD_MAPS - 1}}

\* an overlay whose tables are all zero
ZeroOverlay ==
    [offset_table |-> Repeat(0, MaxChunks + 3),
     chunk_table |-> [len |-> NUMBER_OF_FIELD_MAPS, entries |-> Repeat(Wide(0), 5)]]

InitFieldMaps ==
    /\ overflow_checks \in BOOLEAN
    /\ c = CompressIdle
    /\ d = DecompressIdle
    /\ h = HeaderIdle
    /\ m \in {[pc |-> "from_files", files |-> files] : files \in FieldMapsFiles}
          \cup {ToFilesEntry(self, align_files, ZeroOverlay,
                             [offset_table |-> ZeroOverlay.offset_table],
                             [some |-> FALSE]) :
                    self \in FieldMapsValues, align_files \in BOOLEAN}

\* FieldMaps::from_files, and the call of to_files on what it returned
F_FromFiles ==
    /\ m.pc = "from_files"
    /\ LET self == from_files(m.files.fmapdata, m.files.treasure_info, m.files.overlay3,
                              m.files.overlay4, overflow_checks)
       IN  IF self.result # "Ok"
           THEN m' = [pc |-> "done", result |-> self.result, files |-> m.files]
           ELSE \E align_files \in BOOLEAN :
                    m' = ToFilesEntry(self, align_files, m.files.overlay3, m.files.overlay4,
                                      [some |-> TRUE, fmapdata |-> m.files.fmapdata,
                                       treasure_info |-> m.files.treasure_info])
    /\ UNCHANGED <<overflow_checks, c, d, h>>

F_Begin ==
    /\ m.pc = "to_files"
    /\ m' = ToFilesBeginStep(m)
    /\ UNCHANGED <<overflow_checks, c, d, h>>

F_FmapdataChunk ==
    /\ m.pc = "fmapdata" /\ m.chunk < Len(m.self.fmapdata_chunks)
    /\ m' = ToFilesFmapdataChunkStep(
                m, to_compressed(m.self.fmapdata_chunks[m.chunk + 1], overflow_checks))
    /\ UNCHANGED <<overflow_checks, c, d, h>>

F_FmapdataEnd ==
    /\ m.pc = "fmapdata" /\ m.chunk >= Len(m.self.fmapdata_chunks)
    /\ m' = ToFilesFmapdataEndStep(m)
    /\ UNCHANGED <<overflow_checks, c, d, h>>

F_TreasureChunk ==
    /\ m.pc = "treasure" /\ m.chunk < Len(m.self.treasure_data)
    /\ m' = ToFilesTreasureChunkStep(m)
    /\ UNCHANGED <<overflow_checks, c, d, h>>

F_TreasureEnd ==
    /\ m.pc = "treasure" /\ m.chunk >= Len(m.self.treasure_data)
    /\ m' = ToFilesTreasureEndStep(m)
    /\ UNCHANGED <<overflow_checks, c, d, h>>

F_Maps ==
    /\ m.pc = "maps"
    /\ m' = ToFilesMapsStep(m)
    /\ UNCHANGED <<overflow_checks, c, d, h>>

NextFieldMaps ==
    \/ F_FromFiles \/ F_Begin \/ F_FmapdataChunk \/ F_FmapdataEnd
    \/ F_TreasureChunk \/ F_TreasureEnd \/ F_Maps

\* to_files on a FieldMaps value, read by from_files or built in memory
SpecFieldMaps == InitFieldMaps /\ [][NextFieldMaps]_vars

----------------------------------------------------------------------------
(* MaybeCompressedData::make_uncompressed and make_compressed,              *)
(* misc.rs:77-92 and 104-119.  m holds the value, what the last call        *)
(* returned, and the uncompressed bytes the value held first.               *)

\* compressed streams held by a Compressed value
MaybeStreams ==
    {CraftStream(CraftSize(cmds) + ds, cmds, delta) :
        cmds \in CraftLists(MaxCmds), ds \in {0, 1}, delta \in {0, 1}}

\* buffers held by an Uncompressed value
MaybeInputs == ShortInputs \cup {RunInput(n, 255) : n \in {255, 256, 257, 258}}

\* a value on which no call was made yet
MaybeEntry(value) ==
    [pc |-> "value", value |-> value, call |-> "none", strict |-> FALSE,
     returned |-> [result |-> "Ok", data |-> <<>>],
     all_ok |-> TRUE,
     first |-> IF value.compressed THEN [some |-> FALSE, data |-> <<>>]
               ELSE [some |-> TRUE, data |-> value.data]]

\* a call that returns: the value afterwards and what was returned
MaybeReturn(s, call, strict, value, returned) ==
    [pc |-> IF returned.result = "Panic" THEN "panicked" ELSE "value",
     value |-> value, call |-> call, strict |-> strict, returned |-> returned,
     all_ok |-> s.all_ok /\ returned.result = "Ok",
     first |-> IF ~s.first.some /\ returned.result = "Ok" /\ ~value.compressed
               THEN [some |-> TRUE, data |-> value.data]
               ELSE s.first]

\* misc.rs:79-92, where buf is what decompress made of the held bytes
make_uncompressed(s, strict, buf) ==
    IF ~s.value.compressed
    THEN MaybeReturn(s, "make_uncompressed", strict, s.value,
                     [result |-> "Ok", data |-> s.value.data])
    ELSE IF buf.result # "Ok"
    THEN MaybeReturn(s, "make_uncompressed", strict, s.value,
                     [result |-> buf.result, data |-> <<>>])
    ELSE MaybeReturn(s, "make_uncompressed", strict, Uncompressed(buf.dst),
                     [result |-> "Ok", data |-> buf.dst])

\* misc.rs:106-119, where buf is what compress made of the held bytes
make_compressed(s, buf) ==
    IF s.value.compressed
    THEN MaybeReturn(s, "make_compressed", FALSE, s.value,
                     [result |-> "Ok", data |-> s.value.data])
    ELSE IF buf.result # "Ok"
    THEN MaybeReturn(s, "make_compressed", FALSE, s.value,
                     [result |-> buf.result, data |-> <<>>])
    ELSE MaybeReturn(s, "make_compressed", FALSE, Compressed(buf.dst),
                     [result |-> "Ok", data |-> buf.dst])

InitMaybe ==
    /\ overflow_checks \in BOOLEAN
    /\ c = CompressIdle
    /\ d = DecompressIdle
    /\ h = HeaderIdle
    /\ m \in {MaybeEntry(Uncompressed(data)) : data \in MaybeInputs}
          \cup {MaybeEntry(Compressed(data)) : data \in MaybeStreams}

M_MakeUncompressed ==
    /\ m.pc = "value"
    /\ \E strict \in BOOLEAN :
          m' = make_uncompressed(m, strict, decompress(m.value.data, strict, overflow_checks))
    /\ UNCHANGED <<overflow_checks, c, d, h>>

M_MakeCompressed ==
    /\ m.pc = "value"
    /\ m' = make_compressed(m, compress(m.value.data, overflow_checks))
    /\ UNCHANGED <<overflow_checks, c, d, h>>

NextMaybe == M_MakeUncompressed \/ M_MakeCompressed

\* any sequence of make_uncompressed and make_compressed on a value
SpecMaybe == InitMaybe /\ [][NextMaybe]_vars

----------------------------------------------------------------------------
(* decompress run to its end: blocks of 256 command groups *)

\* the most command groups of a block (the bound of the 'block loop)
MaxGroups == 256

\* a block body of MaxGroups command groups of four Copy commands each, no
\* EndBlock code in it: 1024 commands
FullBody == [i \in 1..(5 * MaxGroups) |-> IF i % 5 = 1 THEN 85 ELSE 1]

\* the size prefix of a block of n bytes
CraftPrefix(n) == <<n % 256, n \div 256>>

\* streams with a block of MaxGroups groups: alone; followed by a second
\* block; followed by a zero byte that the prefix counts; and followed by a
\* zero byte that the prefix does not count, with a second block after it
FullStreams ==
    {encode_var(Wide(1024)).bytes \o <<0>> \o CraftPrefix(1280) \o FullBody,
     encode_var(Wide(1025)).bytes \o <<1>> \o CraftPrefix(1280) \o FullBody
        \o CraftBlock(<<<<1, <<1>>>>>>, 0),
     encode_var(Wide(1024)).bytes \o <<0>> \o CraftPrefix(1281) \o FullBody \o <<0>>,
     encode_var(Wide(1025)).bytes \o <<1>> \o CraftPrefix(1280) \o FullBody \o <<0>>
        \o CraftBlock(<<<<1, <<1>>>>>>, 0)}

\* decompress is called on a crafted stream or on one with a full block
InitTerminate ==
    /\ overflow_checks \in BOOLEAN
    /\ c = CompressIdle
    /\ d \in {DecompressEntry(src, strict) : src \in Streams \cup FullStreams,
                                             strict \in BOOLEAN}
    /\ h = HeaderIdle
    /\ m = MiscIdle

\* decompress runs on the calling thread until it returns: a step that can
\* be taken is taken
SpecTerminate == InitTerminate /\ [][NextDecode]_vars /\ WF_vars(NextDecode)

----------------------------------------------------------------------------
(* BattleMapFile: map.rs:685-742, with Palette::from_bytes (misc.rs:262-274) *)
(* and TileLayer::from_bytes (map.rs:248-257).  A DataWithOffsetTable is a  *)
(* record [chunks, footer]; a Palette is the sequence of its 16-bit colours; *)
(* a TileLayer is [width, tiles], the Grid<Tile> built from the 16-bit      *)
(* tiles.  Grid::from_vec (grid crate) panics when the number of tiles is   *)
(* not a multiple of the width and gives a grid of width 0 when there are  *)
(* no tiles; Vec::split_off panics when its index is past the length.       *)

\* most chunks of the enumerated battle map tables
MaxBattleChunks == 26

BATTLE_MAP_WIDTH == 64

\* data.chunks_exact(2) read as little-endian 16-bit values; a last odd
\* byte is dropped
Le16s(data) == [i \in 1..(Len(data) \div 2) |-> data[2 * i - 1] + 256 * data[2 * i]]

\* Palette::from_bytes
Palette_from_bytes(data) ==
    IF Len(data) % 2 # 0 THEN [result |-> "ExtraBytesInInput", palette |-> <<>>]
    ELSE [result |-> "Ok", palette |-> Le16s(data)]

\* TileLayer::from_bytes
TileLayer_from_bytes(data, width) ==
    LET tiles == Le16s(data)
    IN  IF Len(tiles) % width # 0
        THEN [result |-> "Panic", layer |-> [width |-> width, tiles |-> <<>>]]
        ELSE IF tiles = <<>>
        THEN [result |-> "Ok", layer |-> [width |-> 0, tiles |-> <<>>]]
        ELSE [result |-> "Ok", layer |-> [width |-> width, tiles |-> tiles]]

\* MaybeSerialized::Serialized(data)
Serialized(data) == [serialized |-> TRUE, data |-> data]

\* the closure of lines 719-735 on one group of 8 chunks
BattleMapOf(chunks) ==
    LET palette == Palette_from_bytes(chunks[3])
        layers == [i \in 1..3 |-> TileLayer_from_bytes(chunks[3 + i], BATTLE_MAP_WIDTH)]
        map == [unk0 |-> chunks[1], tileset |-> Serialized(chunks[2]),
                palette |-> palette.palette,
                tile_layers |-> [i \in 1..3 |-> layers[i].layer],
                unk6 |-> chunks[7], unk7 |-> chunks[8]]
    IN  IF palette.result # "Ok" THEN [result |-> "PaletteDeserialization", map |-> map]
        ELSE IF \E i \in 1..3 : layers[i].result = "Panic"
        THEN [result |-> "Panic", map |-> map]
        ELSE [result |-> "Ok", map |-> map]

\* lines 713-737: the groups of 8 chunks taken in order, up to the first
\* one that fails
RECURSIVE BattleMapsOf(_, _)
BattleMapsOf(chunks, maps) ==
    IF chunks = <<>> THEN [result |-> "Ok", maps |-> maps]
    ELSE LET one == BattleMapOf(SubSeq(chunks, 1, 8))
         IN  IF one.result # "Ok" THEN [result |-> one.result, maps |-> maps]
             ELSE BattleMapsOf(SubSeq(chunks, 9, Len(chunks)), Append(maps, one.map))

\* what try_from returns when it returns no BattleMapFile
NoBattleMapFile(result, chunks_len) ==
    [result |-> result, number |-> chunks_len, maps |-> <<>>, unk_last |-> <<>>,
     padding |-> <<>>]

\* TryFrom<DataWithOffsetTable> for BattleMapFile, lines 705-742.  With
\* fewer than 9 chunks `chunks_len - 9` overflows: a panic under overflow
\* checks, and otherwise an index past the length, on which split_off panics.
try_from(value, checks) ==
    LET chunks_len == Len(value.chunks)
    IN  IF chunks_len % 8 # 1 THEN NoBattleMapFile("InvalidNumberOfChunks", chunks_len)
        ELSE IF chunks_len < 9 THEN NoBattleMapFile("Panic", chunks_len)
        ELSE LET unk_last == SubSeq(value.chunks, chunks_len - 9 + 1, chunks_len)
                 built == BattleMapsOf(SubSeq(value.chunks, 1, chunks_len - 9), <<>>)
             IN  IF built.result # "Ok" THEN NoBattleMapFile(built.result, chunks_len)
                 ELSE [result |-> "Ok", number |-> chunks_len, maps |-> built.maps,
                       unk_last |-> unk_last, padding |-> value.footer]

\* a row of BATTLE_MAP_WIDTH tiles
TileRow(i) == [k \in 1..(2 * BATTLE_MAP_WIDTH) |-> IF k % 2 = 1 THEN i ELSE 0]

\* the palette chunks and the tile layer chunks of the enumerated tables:
\* empty, well-formed, and of a length that does not parse
PaletteKinds == {"empty", "even", "odd"}
LayerKinds == {"empty", "row", "short"}

\* chunk number i (from 1) of a table of n chunks: the 3rd chunk of a group
\* of 8 is a palette, the 4th to 6th are tile layers
BattleChunk(i, n, palette_kind, layer_kind) ==
    IF i > n - 9 THEN <<i>>
    ELSE IF i % 8 = 3
    THEN (CASE palette_kind = "empty" -> <<>>
            [] palette_kind = "even" -> <<i, 1>>
            [] palette_kind = "odd" -> <<i>>)
    ELSE IF i % 8 \in {4, 5, 6}
    THEN (CASE layer_kind = "empty" -> <<>>
            [] layer_kind = "row" -> TileRow(i)
            [] layer_kind = "short" -> <<i, 0>>)
    ELSE <<i>>

\* tables of 0 to MaxBattleChunks chunks
BattleTables ==
    {[chunks |-> [i \in 1..n |-> BattleChunk(i, n, palette_kind, layer_kind)],
      footer |-> footer] :
        n \in 0..MaxBattleChunks, palette_kind \in PaletteKinds,
        layer_kind \in LayerKinds, footer \in {<<>>, <<77>>}}

\* BattleMapFile::try_from is called on a table
InitBattle ==
    /\ overflow_checks \in BOOLEAN
    /\ c = CompressIdle
    /\ d = DecompressIdle
    /\ h = HeaderIdle
    /\ m \in {[pc |-> "try_from", value |-> value, file |-> NoBattleMapFile("Running", 0)] :
                value \in BattleTables}

B_TryFrom ==
    /\ m.pc = "try_from"
    /\ m' = [m EXCEPT !.pc = "done", !.file = try_from(m.value, overflow_checks)]
    /\ UNCHANGED <<overflow_checks, c, d, h>>

NextBattle == B_TryFrom

SpecBattle == InitBattle /\ [][NextBattle]_vars

----------------------------------------------------------------------------
(* Battle tilesets: BattleMap::serialize_tileset and deserialize_tileset    *)
(* (map.rs:662-682) over Tileset and TilesetTile (map.rs:69, 90-126,        *)
(* 200-224) in the four bits per pixel format.  A TilesetTile is the        *)
(* sequence of its TILE_AREA pixels, a Tileset the sequence of its tiles.   *)
(* Indexing a slice with ..=n panics when n is not an index of the slice.   *)

\* most tiles in the exhaustively enumerated tilesets
MaxTiles == 3

TILE_AREA == 64

\* TilesetTile::to_bytes, FourBitsPerPixel: two pixels to a byte, low
\* nibble first
TilesetTile_to_bytes(tile) ==
    IF \E k \in 1..Len(tile) : tile[k] > 15
    THEN [result |-> "PixelValueTooLarge", data |-> <<>>]
    ELSE [result |-> "Ok",
          data |-> [k \in 1..(Len(tile) \div 2) |->
                       BitOr(tile[2 * k - 1], (tile[2 * k] * 16) % 256)]]

\* Tileset::to_bytes: the bytes of the tiles in order, or the first error
RECURSIVE Tileset_to_bytes(_)
Tileset_to_bytes(tileset) ==
    IF tileset = <<>> THEN [result |-> "Ok", data |-> <<>>]
    ELSE LET first == TilesetTile_to_bytes(Head(tileset))
             rest == Tileset_to_bytes(Tail(tileset))
         IN  IF first.result # "Ok" THEN first
             ELSE IF rest.result # "Ok" THEN rest
             ELSE [result |-> "Ok", data |-> first.data \o rest.data]

\* uncompressed.iter().rposition(|&x| x != 0).unwrap_or(uncompressed.len()),
\* as an index from 0
LastNonZero(uncompressed) ==
    LET found == {i \in 1..Len(uncompressed) : uncompressed[i] # 0}
    IN  IF found = {} THEN Len(uncompressed)
        ELSE (CHOOSE i \in found : \A j \in found : j <= i) - 1

\* lines 674-680: what serialize_tileset hands to compress
TilesetCut(tileset) ==
    LET uncompressed == Tileset_to_bytes(tileset)
        last_non_zero == LastNonZero(uncompressed.data)
    IN  IF uncompressed.result # "Ok" THEN uncompressed
        ELSE IF last_non_zero >= Len(uncompressed.data)
        THEN [result |-> "Panic", data |-> <<>>]
        ELSE [result |-> "Ok", data |-> SubSeq(uncompressed.data, 1, last_non_zero + 1)]

\* lines 679-681, where buf is what compress made of the cut bytes
TilesetCompressed(buf) ==
    IF buf.result # "Ok" THEN [result |-> buf.result, data |-> <<>>]
    ELSE [result |-> "Ok", data |-> buf.dst]

\* BattleMap::serialize_tileset
serialize_tileset(tileset, checks) ==
    IF TilesetCut(tileset).result # "Ok" THEN TilesetCut(tileset)
    ELSE TilesetCompressed(compress(TilesetCut(tileset).data, checks))

\* TilesetTile::from_bytes, FourBitsPerPixel: a byte to two pixels
TilesetTile_from_bytes(data) ==
    IF 2 * Len(data) # TILE_AREA THEN [result |-> "InvalidInputLength", tile |-> <<>>]
    ELSE [result |-> "Ok",
          tile |-> [k \in 1..TILE_AREA |->
                       IF k % 2 = 1 THEN data[(k + 1) \div 2] % 16
                       ELSE data[k \div 2] \div 16]]

\* Tileset::from_bytes: data.chunks(TILE_AREA / 2), or the first error
RECURSIVE Tileset_from_bytes(_)
Tileset_from_bytes(data) ==
    IF data = <<>> THEN [result |-> "Ok", tileset |-> <<>>]
    ELSE LET size == Min(TILE_AREA \div 2, Len(data))
             first == TilesetTile_from_bytes(SubSeq(data, 1, size))
             rest == Tileset_from_bytes(SubSeq(data, size + 1, Len(data)))
         IN  IF first.result # "Ok" THEN [result |-> first.result, tileset |-> <<>>]
             ELSE IF rest.result # "Ok" THEN rest
             ELSE [result |-> "Ok", tileset |-> <<first.tile>> \o rest.tileset]

\* lines 665-669, where buf is what decompress made of the data
TilesetDecompressed(buf) ==
    IF buf.result # "Ok" THEN [result |-> buf.result, tileset |-> <<>>]
    ELSE Tileset_from_bytes(align_to_elements(buf.dst, TILE_AREA \div 2))

\* BattleMap::deserialize_tileset
deserialize_tileset(data, checks) == TilesetDecompressed(decompress(data, FALSE, checks))

\* the tiles of the enumerated tilesets
ZeroTile == Repeat(0, TILE_AREA)
PixelTile(k, value) == [i \in 1..TILE_AREA |-> IF i = k THEN value ELSE 0]
FullTile(value) == Repeat(value, TILE_AREA)
Tiles == {ZeroTile, PixelTile(1, 1), PixelTile(TILE_AREA, 15), PixelTile(34, 16),
          FullTile(15)}

RECURSIVE TilesetsOf(_)
TilesetsOf(n) ==
    IF n = 0 THEN {<<>>}
    ELSE {Append(t, tile) : t \in TilesetsOf(n - 1), tile \in Tiles}

\* every tileset of up to MaxTiles of these tiles, and tilesets whose bytes
\* hold a long run
Tilesets ==
    UNION {TilesetsOf(n) : n \in 0..MaxTiles}
        \cup {Repeat(FullTile(1), 9),
              <<PixelTile(1, 1)>> \o Repeat(ZeroTile, 9) \o <<PixelTile(1, 1)>>}

NoTileset == [result |-> "Running", tileset |-> <<>>]

\* serialize_tileset is called on a tileset
InitTileset ==
    /\ overflow_checks \in BOOLEAN
    /\ c = CompressIdle
    /\ d = DecompressIdle
    /\ h = HeaderIdle
    /\ m \in {[pc |-> "serialize_tileset", tileset |-> tileset,
               serialized |-> [result |-> "Running", data |-> <<>>],
               back |-> NoTileset] : tileset \in Tilesets}

T_Serialize ==
    /\ m.pc = "serialize_tileset"
    /\ m' = [m EXCEPT !.pc = "deserialize_tileset",
                      !.serialized = serialize_tileset(m.tileset, overflow_checks)]
    /\ UNCHANGED <<overflow_checks, c, d, h>>

\* the bytes serialize_tileset returned are given to deserialize_tileset
T_Deserialize ==
    /\ m.pc = "deserialize_tileset"
    /\ m.serialized.result = "Ok"
    /\ m' = [m EXCEPT !.pc = "done",
                      !.back = deserialize_tileset(m.serialized.data, overflow_checks)]
    /\ UNCHANGED <<overflow_checks, c, d, h>>

NextTileset == T_Serialize \/ T_Deserialize

SpecTileset == InitTileset /\ [][NextTileset]_vars

----------------------------------------------------------------------------
(* Properties *)

IsPrefix(a, b) == Len(a) <= Len(b) /\ SubSeq(b, 1, Len(a)) = a

\* C1: round trip.  compress succeeds on every buffer, and strict
\* decompress of what it wrote into an empty destination succeeds and yields
\* the buffer.
C1_RoundTrip ==
    /\ c.pc = "done" => c.result = "Ok"
    /\ (d.pc = "done" /\ d.strict) => (d.result = "Ok" /\ d.dst = c.src)

\* C2: for every input length L >= 0 the output of compress starts with
\* varint(L) and varint(ceil(L/512) - 1), exactly ceil(L/512) blocks follow,
\* and the header is computed without underflow or overflow.
C2_HeaderLayout ==
    c.pc \notin {"idle", "header"} =>
        LET L == Len(c.src)
            blocks == (L + 511) \div 512
        IN  /\ c.result \in {"Running", "Ok"}
            /\ ~c.wrapped
            /\ blocks >= 1
            /\ IsPrefix(encode_var(Wide(L)).bytes \o encode_var(Wide(blocks - 1)).bytes,
                        c.dst)
            /\ c.pc = "done" => c.block_number = blocks

\* d takes a step that executes a command of the given kind, whose two
\* operand bytes are in the input
ExecutesWithOperands(command) ==
    /\ d.pc = "command" /\ d' # d
    /\ CommandOf(d.commands_byte) = command
    /\ d.pos + 2 <= Len(d.src)

\* C3: an Rle command with operand bytes (n, value) appends value repeated
\* n + 2 times, for every n in 0..255.
C3_RleAppends ==
    [][ExecutesWithOperands("Rle") =>
            /\ d'.result = "Running"
            /\ d'.dst = d.dst \o Repeat(d.src[d.pos + 2], d.src[d.pos + 1] + 2)]_vars

\* the last `distance` bytes of dst repeated up to `length` bytes
PeriodicTail(dst, distance, length) ==
    [i \in 1..length |-> dst[Len(dst) - distance + ((i - 1) % distance) + 1]]

\* C4: an Lz77 command whose distance is smaller than its length succeeds and
\* appends the periodic repetition of the last `distance` output bytes, cut
\* at `length` bytes.
C4_Overlap ==
    [][(/\ ExecutesWithOperands("Lz77")
        /\ Lz77Distance(d.src[d.pos + 1], d.src[d.pos + 2]) \in 1..Len(d.dst)
        /\ Lz77Distance(d.src[d.pos + 1], d.src[d.pos + 2]) < Lz77Length(d.src[d.pos + 2]))
        => /\ d'.result = "Running"
           /\ d'.dst = d.dst \o PeriodicTail(d.dst,
                                    Lz77Distance(d.src[d.pos + 1], d.src[d.pos + 2]),
                                    Lz77Length(d.src[d.pos + 2]))]_vars

\* the little-endian 2-byte prefix of the block that d is in or has just left
PrefixValue(s) == s.src[s.block_start - 1] + 256 * s.src[s.block_start]

\* C5: under strict, a block whose consumed input differs from its prefix
\* ends decompress at once with IncorrectBlockSize{declared, actual}, nothing
\* of a later block being read; a block whose consumed input equals its
\* prefix passes.
C5_BlockSize ==
    d.strict =>
        /\ d.result = "IncorrectBlockSize" =>
              /\ d.pc = "done"
              /\ d.declared = PrefixValue(d)
              /\ d.actual = d.pos - d.block_start
              /\ d.actual # d.declared
        /\ (d.pc = "block" /\ d.block > 0) => d.pos - d.block_start = PrefixValue(d)

\* C5 witness: the second block of a stream fails the block-size check after
\* the first one passed it
C5_Witness ==
    /\ d.strict /\ d.result = "IncorrectBlockSize" /\ d.block = 1
    /\ d.declared = d.actual + 1

\* C6: under strict, once every block has passed the block-size check,
\* decompress returns IncorrectUncompressedSize exactly when the number of
\* bytes in the (initially empty) output differs from the header's
\* uncompressed_size, and Ok otherwise; never before all blocks are decoded.
C6_UncompressedSize ==
    (d.strict /\ d.pc = "done") =>
        LET declared == read_varint(d.src, 0).value
            passed == d.num_blocks > 0 /\ d.block = d.num_blocks
        IN  /\ passed <=> d.result \in {"Ok", "IncorrectUncompressedSize"}
            /\ passed => (d.result = "IncorrectUncompressedSize" <=> Len(d.dst) # declared)
            /\ d.result = "IncorrectUncompressedSize" =>
                  (d.declared = declared /\ d.actual = Len(d.dst))

\* C6 witness: all blocks passed and the sizes differ
C6_Witness ==
    /\ d.strict /\ d.result = "IncorrectUncompressedSize"
    /\ d.num_blocks = 2 /\ d.block = 2 /\ Len(d.dst) > 0

\* C7: non-strict decompress never returns a size mismatch, and where strict
\* decompress succeeds, non-strict decompress of the same input succeeds with
\* the same output.
C7_NonStrict ==
    /\ ~d.strict => d.result \notin {"IncorrectBlockSize", "IncorrectUncompressedSize"}
    /\ (d.strict /\ d.pc = "done" /\ d.result = "Ok") =>
          LET loose == decompress(d.src, FALSE, overflow_checks)
          IN loose.result = "Ok" /\ loose.dst = d.dst

\* C7 witness: a non-strict run ends Ok on a stream whose block prefix and
\* declared size are both wrong
C7_Witness ==
    /\ ~d.strict /\ d.pc = "done" /\ d.result = "Ok" /\ Len(d.dst) > 0
    /\ d.pos - d.block_start # PrefixValue(d)
    /\ Len(d.dst) # d.uncompressed_size

\* the input ends before a byte that the next step of d needs
SrcShort(s) ==
    CASE s.pc = "header" ->
            \/ Len(s.src) < 1
            \/ Len(s.src) < 2 + s.src[1] \div 64
            \/ Len(s.src) < 2 + s.src[1] \div 64 + s.src[2 + s.src[1] \div 64] \div 64
      [] s.pc = "block" -> s.block < s.num_blocks /\ s.pos + 2 > Len(s.src)
      [] s.pc = "group" -> s.group < 256 /\ s.pos + 1 > Len(s.src)
      [] s.pc = "command" ->
            CASE CommandOf(s.commands_byte) = "EndBlock" -> FALSE
              [] CommandOf(s.commands_byte) = "Copy" -> s.pos + 1 > Len(s.src)
              [] OTHER -> s.pos + 2 > Len(s.src)
      [] OTHER -> FALSE

\* C8: when the input ends before a byte that decoding needs, decompress
\* returns an Io error, in strict and in non-strict mode, and appends nothing
\* more.
C8_Truncated ==
    [][(SrcShort(d) /\ d' # d) =>
            (d'.pc = "done" /\ d'.result = "Io" /\ d'.dst = d.dst)]_vars

\* C9: compress returns a CompressionError when the input length cannot be
\* represented by the 1-4 byte header varint (2^26 or more).
C9_TypedError ==
    (h.pc = "done" /\ h.size.hi >= 1024) => h.header.result = "TryFromInt"

\* C10: every Lz77 command that compress writes has distance in 2..4095 and
\* length in 2..17 (as read back from the operand bytes written), and every
\* Lz77 command that decompress executes without error has distance >= 2.
C10_Lz77Ranges ==
    [][/\ (c.pc = "command" /\ c'.command_number = c.command_number + 1
           /\ c'.last.command = "Lz77") =>
            LET b0 == c'.dst[Len(c'.dst) - 1]
                b1 == c'.dst[Len(c'.dst)]
            IN  /\ Len(c'.dst) = Len(c.dst) + 2
                /\ Lz77Distance(b0, b1) \in 2..4095
                /\ Lz77Length(b1) \in 2..17
                /\ c'.last.offset \in 2..4095
                /\ c'.last.length \in 2..17
       /\ (ExecutesWithOperands("Lz77") /\ d'.result = "Running") =>
            Lz77Distance(d.src[d.pos + 1], d.src[d.pos + 2]) >= 2]_vars

\* C10 witness: compress wrote an Lz77 command of distance 4095 last and
\* decompress has executed its output to the end
C10_Witness ==
    /\ c.pc = "done" /\ c.last.command = "Lz77" /\ c.last.offset = 4095
    /\ d.pc = "done" /\ d.result = "Ok" /\ d.dst = c.src

\* C11: for every distance d in 2..4095 and length l in 2..17 the operand
\* bytes that compress writes are (d mod 256, (l - 2) + 16 * (d div 256)),
\* the decoder's formulas give back exactly (d, l) from them, and
\* (4095, 17) is written as (0xFF, 0xFF).
C11_Lz77Packing ==
    LET dist == m.lz77_best_offset
        l == m.lz77_best_length
    IN  /\ m.pc \in {"unpack", "unpacked"} =>
            /\ m.buf = <<dist % 256, (l - 2) + 16 * (dist \div 256)>>
            /\ (dist = 4095 /\ l = 17) => m.buf = <<255, 255>>
        /\ m.pc = "unpacked" => (m.distance = dist /\ m.length = l)

\* C11 witness: the command of distance 4095 and length 17 was packed as
\* (0xFF, 0xFF) and unpacked
C11_Witness ==
    /\ m.pc = "unpacked" /\ m.lz77_best_offset = 4095 /\ m.lz77_best_length = 17
    /\ m.buf = <<255, 255>> /\ m.distance = 4095 /\ m.length = 17

\* the number of equal bytes from position p on, of the `room` bytes left in
\* the block, counted up to cap
RunFrom(src, p, room, cap) ==
    CHOOSE k \in 1..Min(room, cap) :
        /\ (k = Min(room, cap) \/ src[p + k + 1] # src[p + 1])
        /\ \A j \in 2..k : src[p + j] = src[p + 1]

\* compress takes a step that writes one command
WritesCommand == c.pc = "command" /\ c'.command_number = c.command_number + 1

\* the last command was an Rle of 257 bytes and the run goes on at the
\* current position, in the same block
RunGoesOn ==
    /\ c.last.command = "Rle" /\ c.last.length = 257
    /\ c.last.position + 257 = c'.last.position
    /\ c.last.position >= c.uncompressed_block_position
    /\ c.src[c'.last.position + 1] = c.src[c'.last.position]

\* C12 as stated: an Rle command written for a run of r equal bytes
\* (2 <= r <= 257, from the current position, cut at the block end) has the
\* operand bytes (r - 2, value), and a run longer than 257 is split into
\* several Rle commands: after an Rle of 257 bytes the rest of the run is
\* written as Rle again, of 257 bytes unless it is the last.
C12_RleSplit ==
    [][WritesCommand =>
        LET cmd == c'.last
            room == c.uncompressed_block_size - c.uncompressed_block_offset
            r == RunFrom(c.src, cmd.position, room, 258)
        IN  /\ (cmd.command = "Rle" /\ r <= 257) =>
                (r >= 2 /\ cmd.operands = <<r - 2, c.src[cmd.position + 1]>>)
            /\ RunGoesOn =>
                (cmd.command = "Rle" /\ cmd.length = Min(r, 257))]_vars

\* C12 amended: an Rle command written at a position with r equal bytes
\* ahead (cut at the block end) covers min(r, 257) bytes, r >= 2, with the
\* operand bytes (min(r, 257) - 2, value); at a position with 18 or more
\* equal bytes ahead the command is an Rle, so a run longer than 257 starts
\* with Rle commands of 257 bytes (count field 255); what is left of the run
\* is encoded by the ordinary rule: a single left-over byte is never an Rle,
\* and a left-over of 2 or more is an Rle unless a longer Lz77 match exists.
C12_RleOperands ==
    [][WritesCommand =>
        LET cmd == c'.last
            room == c.uncompressed_block_size - c.uncompressed_block_offset
            r == RunFrom(c.src, cmd.position, room, 258)
            covered == Min(r, 257)
        IN  /\ cmd.command = "Rle" =>
                /\ r >= 2
                /\ cmd.length = covered
                /\ cmd.operands = <<covered - 2, c.src[cmd.position + 1]>>
                /\ c'.uncompressed_block_offset = c.uncompressed_block_offset + covered
            /\ r >= 18 => cmd.command = "Rle"
            /\ r = 1 => cmd.command # "Rle"
            /\ (RunGoesOn /\ r >= 2) =>
                (cmd.command = "Rle" \/ (cmd.command = "Lz77" /\ cmd.length > r))]_vars

\* C12 witness: of a run of 258 bytes compress wrote 257 as an Rle with
\* count field 255, and then the last byte as a Copy
C12_Witness ==
    /\ c.src = RunInput(258, 255)
    /\ c.last.command = "Copy" /\ c.last.position = 257
    /\ SubSeq(c.dst, Len(c.dst) - 2, Len(c.dst)) = <<255, 255, 255>>

\* compress takes the step that ends a block
EndsBlock == c.pc = "while" /\ c'.pc = "block"

\* the code in slot `slot` (0..3) of a commands byte
SlotCode(commands_byte, slot) == (commands_byte \div Pow2(2 * slot)) % 4

\* C13: at the end of every block that compress writes, if the block's last
\* command is in the 4th slot of its group then exactly one zero byte is written
\* after the last operand, and otherwise no byte is written and every slot
\* after the last command's is 0 in the group's commands byte; either way
\* the code that follows the block's last command is EndBlock.
C13_EndBlock ==
    [][EndsBlock =>
        LET group == c.dst[c.commands_byte_position + 1]
            body == c.compressed_block_position + 2
        IN  /\ c.last_command_number \in 0..3
            /\ SubSeq(c'.dst, body + 1, Len(c.dst)) = SubSeq(c.dst, body + 1, Len(c.dst))
            /\ \A slot \in 0..c.last_command_number : SlotCode(group, slot) # 0
            /\ c.last_command_number = 3 =>
                /\ c'.dst = CursorWrite(Append(c.dst, 0), c.compressed_block_position,
                                        SubSeq(c'.dst, body - 1, body))
                /\ CommandOf(c'.dst[Len(c'.dst)]) = "EndBlock"
            /\ c.last_command_number < 3 =>
                /\ Len(c'.dst) = Len(c.dst)
                /\ \A slot \in (c.last_command_number + 1)..3 : SlotCode(group, slot) = 0
                /\ CommandOf(group \div Pow2(2 * (c.last_command_number + 1))) = "EndBlock"]_vars

\* C13 witness: the four Copy commands of the buffer 0 1 255 1 filled
\* their group, and the block was ended by one more zero byte
C13_Witness ==
    /\ c.src = <<0, 1, 255, 1>> /\ c.pc = "block" /\ c.block_number = 1
    /\ c.last_command_number = 3
    /\ c.dst = <<4, 0, 6, 0, 85, 0, 1, 255, 1, 0>>

\* what a command with the given operand bytes stands for in the format,
\* after the bytes `out`: Copy is its operand, Lz77 is `length` bytes taken
\* `distance` back, Rle is its value n + 2 times
CommandExpansion(command, operands, out) ==
    CASE command = "Copy" -> <<operands[1]>>
      [] command = "Lz77" ->
            LET distance == Lz77Distance(operands[1], operands[2])
                length == Lz77Length(operands[2])
            IN  [i \in 1..length |->
                    IF Len(out) - distance + i \in 1..Len(out)
                    THEN out[Len(out) - distance + i] ELSE -1]
      [] command = "Rle" -> Repeat(operands[2], operands[1] + 2)

\* compress takes the step that starts a block
StartsBlock == c.pc = "block" /\ c'.pc = "while"

\* C14: for an input of L bytes, block k (from 0) that compress writes
\* starts at input byte 512k and covers min(512, L - 512k) >= 1 bytes; every
\* command of the block stands for exactly the input bytes from the current
\* position on and none beyond the block's end; the block is ended when
\* exactly its bytes are covered; and ceil(L/512) blocks are written.
C14_BlockCover ==
    [][/\ StartsBlock =>
            /\ c'.uncompressed_block_position = 512 * c.block_number
            /\ c'.uncompressed_block_size
                    = Min(512, Len(c.src) - 512 * c.block_number)
            /\ c'.uncompressed_block_size >= 1
            /\ c'.uncompressed_block_offset = 0
       /\ WritesCommand =>
            LET cmd == c'.last
                p == c.uncompressed_block_position + c.uncompressed_block_offset
                written == SubSeq(c'.dst, Len(c.dst) + 1, Len(c'.dst))
                expansion == CommandExpansion(cmd.command, written, SubSeq(c.src, 1, p))
            IN  /\ cmd.position = p
                /\ Len(expansion) >= 1
                /\ expansion = SubSeq(c.src, p + 1, p + Len(expansion))
                /\ c'.uncompressed_block_offset
                        = c.uncompressed_block_offset + Len(expansion)
                /\ c'.uncompressed_block_offset <= c.uncompressed_block_size
                /\ p + Len(expansion) <= Min(512 * (c.block_number + 1), Len(c.src))
       /\ EndsBlock =>
            /\ c.uncompressed_block_offset = c.uncompressed_block_size
            /\ c'.block_number = c.block_number + 1
       /\ (c'.pc = "done" /\ c'.result = "Ok" /\ Len(c.src) > 0) =>
            c'.block_number = (Len(c.src) + 511) \div 512]_vars

\* C14 witness: of 513 equal bytes compress wrote two blocks, the second
\* one a Copy of the byte at position 512
C14_Witness ==
    /\ c.src = RunInput(513, 255) /\ c.pc = "done" /\ c.result = "Ok"
    /\ c.block_number = 2
    /\ c.uncompressed_block_position = 512 /\ c.uncompressed_block_size = 1
    /\ c.last.command = "Copy" /\ c.last.position = 512

\* a wide number below 2^26: the values that four varint bytes hold
Below2Pow26(w) == w.hi < 1024

\* the least number of varint bytes (6 bits, then 8 bits every 6) that hold w
NeededBytes(w) ==
    IF w.hi = 0 /\ w.lo < 64 THEN 1
    ELSE IF w.hi = 0 /\ w.lo < 16384 THEN 2
    ELSE IF w.hi < 16 THEN 3
    ELSE 4

\* C15: for every v below 2^26, encode_var(v) returns the least number of
\* bytes (1 to 4) that holds v, the top 2 bits of the first byte are that
\* number minus 1 and its low 6 bits are v & 0x3F; encode_var(63) = [0x3F]
\* and encode_var(64) = [0x40, 0x01].
C15_EncodeVar ==
    (m.pc \in {"read", "done"} /\ Below2Pow26(m.self)) =>
        /\ m.result = "Ok" /\ ~m.wrapped
        /\ Len(m.encoded) = NeededBytes(m.self)
        /\ Len(m.encoded) \in 1..4
        /\ m.encoded[1] \div 64 = Len(m.encoded) - 1
        /\ m.encoded[1] % 64 = m.self.lo % 64
        /\ \A i \in 1..Len(m.encoded) : m.encoded[i] \in 0..255
        /\ m.self = Wide(63) => m.encoded = <<63>>
        /\ m.self = Wide(64) => m.encoded = <<64, 1>>

\* C15 witness: 64 was encoded as 0x40 0x01
C15_Witness == m.pc = "read" /\ m.self = Wide(64) /\ m.encoded = <<64, 1>>

\* C16: for every x that encode_var writes in 1 to 4 bytes (x < 2^26),
\* read_varint on a reader holding encode_var(x) and then any other bytes
\* returns x and leaves the reader just after the bytes of encode_var(x).
C16_VarintRoundTrip ==
    (m.pc = "done" /\ Below2Pow26(m.self)) =>
        /\ m.result = "Ok"
        /\ m.read.ok
        /\ m.read.value = m.self.hi * 65536 + m.self.lo
        /\ m.read.pos = Len(m.encoded)

\* C16 witness: a value of four varint bytes with mixed bits was read back
\* from a reader that holds two more bytes
C16_Witness ==
    /\ m.pc = "done" /\ m.self = [hi |-> 682, lo |-> 43690] /\ Len(m.encoded) = 4
    /\ m.rest = <<0, 1>> /\ m.read.ok /\ m.read.value = 682 * 65536 + 43690
    /\ m.read.pos = 4

\* C17: for every stream C that compress returned, strict decompress of C
\* succeeds and compress of what it returned gives C again, byte for byte.
C17_FixedPoint ==
    /\ (c.pc = "done" /\ c.result = "Ok" /\ d.pc = "done" /\ d.strict) => d.result = "Ok"
    /\ m.pc = "recompressed" => (m.result = "Ok" /\ m.dst = c.dst)

\* to_writer(None, true) was called on the value parsed from m.inp
Rewritten ==
    m.pc = "done" /\ m.result = "Ok" /\ ~m.chunk_alignment.some /\ m.write_footer

\* C18 as stated: for every file that from_reader parses successfully,
\* to_writer(chunk_alignment = None, write_footer = true) of the parsed
\* value writes the file again, byte for byte.
C18_Rebuild == Rewritten => m.out = m.inp

\* C18 amended: for every file that from_reader parses successfully and whose
\* first offset is a multiple of 4 and at least 4 (the table has no padding
\* after it), to_writer(None, true) of the parsed value writes the file
\* again, byte for byte, and leaves the value as parsed.
C18_RebuildAligned ==
    (Rewritten /\ ReadU32(m.inp, 0) % 4 = 0 /\ ReadU32(m.inp, 0) >= 4) =>
        (m.out = m.inp /\ m.chunks = m.parsed)

\* C18 witness: a file of two chunks, of 3 bytes and of 1 byte, and a
\* footer was parsed and written again
C18_Witness ==
    /\ Rewritten /\ m.inp = TableFile(12, <<3, 1>>, 0, <<77, 78>>)
    /\ m.parsed = <<<<11, 11, 11>>, <<12>>>> /\ m.footer = <<77, 78>> /\ m.out = m.inp

\* to_files takes the step that writes a treasure chunk
WritesTreasureChunk == m.pc = "treasure" /\ m'.pc = "treasure" /\ m'.chunk = m.chunk + 1

\* C19: in to_files every offset written to the treasure offset table of
\* overlay4 is the number of bytes written to treasure_info so far, each
\* treasure chunk being followed there by its zero padding to a multiple of
\* 4; no byte of treasure data or padding is written to fmapdata; and
\* to_files(align_files = false) after from_files writes the fmapdata and
\* treasure_info files that were read.
C19_TreasureOffsets ==
    [][/\ WritesTreasureChunk =>
            LET chunk == m.self.treasure_data[m.chunk + 1]
            IN  /\ m'.overlay4.offset_table[m.chunk + 3] = Len(m'.treasure_info)
                /\ m'.treasure_info = m.treasure_info \o chunk
                        \o Repeat(0, necessary_padding_for(Len(chunk), 4))
                /\ m'.fmapdata = m.fmapdata
       /\ (m.pc = "maps" /\ m'.pc = "done" /\ m.read_from.some /\ ~m.align_files) =>
            /\ m'.fmapdata = m.read_from.fmapdata
            /\ m'.treasure_info = m.read_from.treasure_info]_vars

\* C20: make_uncompressed (make_compressed) on a value that is Uncompressed
\* (Compressed) already returns the held bytes and leaves the value; on any
\* other value it makes the value Uncompressed(decompress(data))
\* (Compressed(compress(data))) when the codec succeeds and leaves the value
\* as it was when the codec fails; and after any sequence of successful
\* calls an Uncompressed value holds the uncompressed bytes it held first.
C20_MakeInPlace ==
    [][/\ (m'.call = "make_uncompressed" /\ ~m.value.compressed) =>
            (m'.value = m.value /\ m'.returned = [result |-> "Ok", data |-> m.value.data])
       /\ (m'.call = "make_compressed" /\ m.value.compressed) =>
            (m'.value = m.value /\ m'.returned = [result |-> "Ok", data |-> m.value.data])
       /\ (m'.call = "make_uncompressed" /\ m.value.compressed) =>
            IF m'.returned.result = "Ok"
            THEN /\ m'.value = Uncompressed(m'.returned.data)
                 /\ decompress(m.value.data, m'.strict, overflow_checks).result = "Ok"
            ELSE m'.value = m.value
       /\ (m'.call = "make_compressed" /\ ~m.value.compressed) =>
            IF m'.returned.result = "Ok"
            THEN /\ m'.value = Compressed(m'.returned.data)
                 /\ compress(m.value.data, overflow_checks).result = "Ok"
            ELSE m'.value = m.value
       /\ (m'.all_ok /\ ~m'.value.compressed /\ m'.first.some) =>
            m'.value.data = m'.first.data]_vars

\* the candidate distances of the match search at position p
Candidates(p) == MinLz77Offset..Min(p, MaxLz77Offset)

\* the candidate distances at position p whose match is the longest, when
\* some candidate matches at all
LongestMatches(src, p, room) ==
    LET len == [dist \in Candidates(p) |-> MatchLength(src, p, dist, room, 0)]
        longest == CHOOSE l \in 0..MaxLz77Length :
                      /\ \A dist \in Candidates(p) : len[dist] <= l
                      /\ l > 0 => \E dist \in Candidates(p) : len[dist] = l
    IN  {dist \in Candidates(p) : longest > 0 /\ len[dist] = longest}

\* the distance in the operand bytes that the step wrote for an Lz77 command
EmittedDistance == Lz77Distance(c'.dst[Len(c'.dst) - 1], c'.dst[Len(c'.dst)])

\* the match search at position p, with `room` bytes left in the block, kept
\* a longest match: no candidate distance has a longer match than the one
\* kept, the kept distance is a candidate with a match of the kept length,
\* and nothing is kept when no candidate matches
KeepsLongest(cmd, room) ==
    /\ \A dist \in Candidates(cmd.position) :
            MatchLength(c.src, cmd.position, dist, room, 0) <= cmd.lz77_best_length
    /\ IF cmd.lz77_best_length = 0 THEN cmd.command # "Lz77"
       ELSE /\ cmd.offset \in Candidates(cmd.position)
            /\ MatchLength(c.src, cmd.position, cmd.offset, room, 0)
                    = cmd.lz77_best_length
            /\ cmd.command = "Lz77" => EmittedDistance = cmd.offset

\* C21 as stated: in the match search at position p, among the candidate
\* distances in 2..min(p, 4095) whose match is the longest, the smallest is
\* the one selected, and the one written when the command is an Lz77.
C21_SmallestDistance ==
    [][WritesCommand =>
        LET cmd == c'.last
            room == c.uncompressed_block_size - c.uncompressed_block_offset
        IN  /\ KeepsLongest(cmd, room)
            /\ \A dist \in Candidates(cmd.position) :
                    (/\ cmd.lz77_best_length > 0
                     /\ MatchLength(c.src, cmd.position, dist, room, 0)
                            = cmd.lz77_best_length)
                    => cmd.offset <= dist]_vars

\* C21 amended: among the candidate distances in 2..min(p, 4095) whose match
\* is the longest, the largest is the one selected (it is evaluated first
\* and a later candidate replaces it only with a strictly longer match), and
\* the one written when the command is an Lz77.
C21_LargestDistance ==
    [][WritesCommand =>
        LET cmd == c'.last
            room == c.uncompressed_block_size - c.uncompressed_block_offset
        IN  /\ KeepsLongest(cmd, room)
            /\ \A dist \in Candidates(cmd.position) :
                    (/\ cmd.lz77_best_length > 0
                     /\ MatchLength(c.src, cmd.position, dist, room, 0)
                            = cmd.lz77_best_length)
                    => cmd.offset >= dist]_vars

\* C21 witness: at position 24 of the 40 bytes 0 1 2 0 1 2 .. the matches
\* 18, 21 and 24 bytes back all run to the end of the buffer (16 bytes), and
\* the Lz77 command written has distance 24
C21_Witness ==
    /\ c.src = PeriodicInput(40, 3) /\ c.last.command = "Lz77"
    /\ c.last.position = 24 /\ c.last.length = 16 /\ c.last.offset = 24
    /\ LongestMatches(c.src, 24, 16) = {18, 21, 24}
    /\ SubSeq(c.dst, Len(c.dst) - 1, Len(c.dst)) = <<24, 14>>

\* C22: at each position compress chooses the command by
\* best = max(lz77_len, rle_count), where lz77_len is the length of the
\* match kept by the search and rle_count the number of equal bytes ahead
\* (at most 257, cut at the block end): Copy if best <= 1, Lz77 only if
\* lz77_len > rle_count, Rle otherwise, so Rle wins every tie with
\* lz77_len = rle_count >= 2; the code is written to the command's slot of
\* the commands byte with the command's operands, and the position advances
\* by exactly best bytes.
C22_Decision ==
    [][WritesCommand =>
        LET cmd == c'.last
            p == c.uncompressed_block_position + c.uncompressed_block_offset
            room == c.uncompressed_block_size - c.uncompressed_block_offset
            lz77_len == IF cmd.offset = 0 THEN 0
                        ELSE MatchLength(c.src, p, cmd.offset, room, 0)
            rle_count == RunFrom(c.src, p, room, 257)
            best == Max(lz77_len, rle_count)
            written == SubSeq(c'.dst, Len(c.dst) + 1, Len(c'.dst))
            code == SlotCode(c'.commands_byte, c.command_number)
        IN  /\ cmd.position = p
            /\ cmd.lz77_best_length = lz77_len /\ cmd.rle_count = rle_count
            /\ best <= 1 => (code = 1 /\ written = <<c.src[p + 1]>>)
            /\ (best > 1 /\ lz77_len > rle_count) =>
                    (code = 2 /\ written = Lz77Operands(cmd.offset, lz77_len))
            /\ (best > 1 /\ lz77_len <= rle_count) =>
                    (code = 3 /\ written = <<rle_count - 2, c.src[p + 1]>>)
            /\ (lz77_len = rle_count /\ rle_count >= 2) => cmd.command = "Rle"
            /\ code = CodeOf(cmd.command)
            /\ c'.commands_byte % Pow2(2 * c.command_number) = c.commands_byte
            /\ c'.commands_byte \div Pow2(2 * c.command_number) = code
            /\ c'.uncompressed_block_offset = c.uncompressed_block_offset + best]_vars

\* C22 witness: at position 3 of 0 0 1 0 0 the match 3 bytes back and the
\* run are both 2 bytes long, and the command written is an Rle of 2 bytes
C22_Witness ==
    /\ c.src = <<0, 0, 1, 0, 0>> /\ c.pc = "done" /\ c.result = "Ok"
    /\ c.last.position = 3 /\ c.last.command = "Rle"
    /\ c.last.lz77_best_length = 2 /\ c.last.offset = 3 /\ c.last.rle_count = 2
    /\ SubSeq(c.dst, Len(c.dst) - 1, Len(c.dst)) = <<0, 0>>
    /\ c.uncompressed_block_offset = 5

\* C23: for every block that compress has written, the 2-byte little-endian
\* prefix holds the number of bytes that follow it in the block (the block
\* being the last thing written); when decompress, given what compress
\* returned, comes to the end of a block (lines 85-93), the input consumed
\* since the prefix is the prefix's value, in strict and in non-strict mode,
\* and the last block ends where the input ends; strict decompress of what
\* compress returned never returns IncorrectBlockSize.
C23_PrefixMatches ==
    /\ (c.pc \in {"block", "done"} /\ c.block_number >= 1) =>
            /\ c.dst[c.compressed_block_position + 1]
                + 256 * c.dst[c.compressed_block_position + 2]
                    = Len(c.dst) - (c.compressed_block_position + 2)
            /\ Len(c.dst) - (c.compressed_block_position + 2) >= 2
    /\ (c.pc = "done" /\ d.pc = "block_end") =>
            /\ d.src = c.dst
            /\ d.pos - d.block_start = PrefixValue(d)
            /\ d.block_size = PrefixValue(d)
            /\ d.block + 1 = d.num_blocks => d.pos = Len(d.src)
    /\ c.pc = "done" => d.result # "IncorrectBlockSize"

\* C23 witness: strict decompress is at the end of the second block of what
\* compress wrote for the 513 bytes 0 1 2 3 4 0 1 .., having consumed the
\* two bytes (a commands byte and a Copy operand) that the prefix declares
C23_Witness ==
    /\ c.src = PeriodicInput(513, 5) /\ c.pc = "done" /\ c.result = "Ok"
    /\ d.strict /\ d.pc = "block_end" /\ d.block = 1 /\ d.num_blocks = 2
    /\ PrefixValue(d) = 2 /\ d.pos - d.block_start = 2 /\ d.pos = Len(c.dst)

\* the number of operand bytes of a command code
OperandBytes(code) == IF code = 0 THEN 0 ELSE IF code = 1 THEN 1 ELSE 2

\* the number of operand bytes of the first n codes of a commands byte, the
\* least-significant pair being the first
RECURSIVE OperandsBefore(_, _)
OperandsBefore(commands_byte, n) ==
    IF n = 0 THEN 0
    ELSE OperandBytes(SlotCode(commands_byte, n - 1)) + OperandsBefore(commands_byte, n - 1)

\* d is about to execute the code in slot d.command of the commands byte at
\* g: the codes of the lower slots were commands with operands, their
\* operands are the bytes between g and the read position, and what is
\* left to execute are the pairs from slot d.command up
AtSlotOf(g) ==
    /\ d.commands_byte = d.src[g] \div Pow2(2 * d.command)
    /\ \A slot \in 0..(d.command - 1) : SlotCode(d.src[g], slot) # 0
    /\ d.pos = g + OperandsBefore(d.src[g], d.command)

\* C24: decompress executes the four codes of a commands byte from the
\* least-significant pair to the most-significant pair, each command taking
\* its operands from the bytes that follow; an EndBlock code stops the block
\* at once: no later code of the byte is executed, nothing more is read or
\* appended, and the next bytes read are the next block's size prefix (or
\* decompress returns).  A block whose commands byte has EndBlock in its
\* first pair appends nothing and consumes exactly 1 byte after its prefix.
C24_EndBlockStops ==
    [][/\ (d.pc = "group" /\ d'.pc = "command") =>
            /\ d'.command = 0 /\ d'.commands_byte = d.src[d.pos + 1]
            /\ d'.pos = d.pos + 1 /\ d'.dst = d.dst
       /\ d.pc = "command" =>
            /\ d.command \in 0..3
            /\ \E g \in (d.block_start + 1)..d.pos : AtSlotOf(g)
       /\ (d.pc = "command" /\ d'.pc = "command") =>
            /\ d'.command = d.command + 1
            /\ d'.commands_byte = d.commands_byte \div 4
            /\ d'.pos = d.pos + OperandBytes(d.commands_byte % 4)
            /\ CommandOf(d.commands_byte) # "EndBlock"
       /\ (d.pc = "command" /\ d' # d /\ CommandOf(d.commands_byte) = "EndBlock") =>
            /\ d'.pc = "block_end" /\ d'.result = "Running"
            /\ d'.pos = d.pos /\ d'.dst = d.dst /\ d'.dst_pos = d.dst_pos
            /\ d.command = 0 =>
                    (d.pos = d.block_start + 1 /\ d.src[d.pos] % 4 = 0)
       /\ (d.pc = "block_end" /\ d' # d) =>
            /\ d'.pos = d.pos /\ d'.dst = d.dst
            /\ \/ d'.pc = "block" /\ d'.block = d.block + 1
               \/ d'.pc = "done" /\ d'.result = "IncorrectBlockSize" /\ d.strict
       /\ (d.pc = "block" /\ d'.pc = "group") =>
            /\ d'.block_size = d.src[d.pos + 1] + 256 * d.src[d.pos + 2]
            /\ d'.pos = d.pos + 2 /\ d'.block_start = d.pos + 2
            /\ d'.dst = d.dst]_vars

\* C24 witness: the first block of the stream is the commands byte 0xF4
\* (EndBlock, Copy, Rle, Rle) alone; strict decompress took nothing from it
\* but that byte, read the second block (an Rle and an Lz77) after it, and
\* returned Ok
C24_Witness ==
    /\ d.src = CraftStreamAbove(<<>>, 61, <<<<3, <<0, 7>>>>, <<2, <<2, 0>>>>>>)
    /\ SubSeq(d.src, 3, 5) = <<1, 0, 244>>
    /\ d.strict /\ d.pc = "done" /\ d.result = "Ok" /\ d.block = 2
    /\ d.dst = <<7, 7, 7, 7>> /\ d.pos = Len(d.src)

\* the value of the second varint of the header of src
SecondVarint(src) == read_varint(src, read_varint(src, 0).pos).value

\* C25: decompress always returns; in a block it reads at most 256 commands
\* bytes and executes at most 1024 commands; a block with no EndBlock code
\* ends after its 256th group without an error of its own, nothing more
\* being read, and decoding goes on with the block-size check and the next
\* block's prefix; no more than (second header varint + 1) blocks are
\* decoded, and exactly that many when decompress gets through all blocks.
C25_Terminates ==
    /\ <>(d.pc = "done")
    /\ [](/\ d.group \in 0..MaxGroups
          /\ (d.pc = "command") => (d.group < MaxGroups /\ 4 * d.group + d.command < 1024)
          /\ (d.pc \in {"block", "group", "command", "block_end"}) =>
                (d.num_blocks = SecondVarint(d.src) + 1 /\ d.block \in 0..d.num_blocks)
          /\ (d.pc \in {"group", "command", "block_end"}) => d.block < d.num_blocks
          /\ (d.pc = "done" /\ d.result \in {"Ok", "IncorrectUncompressedSize"}) =>
                (d.block = d.num_blocks /\ d.block = SecondVarint(d.src) + 1))
    /\ [][/\ (d.pc = "group" /\ d'.pc = "command") =>
               (d.group < MaxGroups /\ d'.group = d.group /\ d'.pos = d.pos + 1)
          /\ (d.pc = "command" /\ d'.pc = "group") =>
               (d.command = 3 /\ d'.group = d.group + 1)
          /\ (d.pc = "group" /\ d.group = MaxGroups /\ d' # d) =>
               /\ d'.pc = "block_end" /\ d'.result = "Running"
               /\ d'.pos = d.pos /\ d'.dst = d.dst
          /\ (d.pc = "block_end" /\ d' # d
              /\ (~d.strict \/ d.pos - d.block_start = d.block_size)) =>
               /\ d'.pc = "block" /\ d'.block = d.block + 1
               /\ d'.pos = d.pos /\ d'.result = "Running"
          /\ (d.pc = "block" /\ d'.pc = "group") =>
               /\ d.block < d.num_blocks /\ d'.block = d.block /\ d'.group = 0
               /\ d'.block_start = d.pos + 2]_vars

\* C25 witness: strict decompress went through a block of 256 groups of
\* four Copy commands with no EndBlock code, then through the second block
\* that follows it, and returned Ok with the 1025 bytes
C25_Witness ==
    /\ d.src = encode_var(Wide(1025)).bytes \o <<1>> \o CraftPrefix(1280) \o FullBody
                   \o CraftBlock(<<<<1, <<1>>>>>>, 0)
    /\ d.strict /\ d.pc = "done" /\ d.result = "Ok"
    /\ d.block = 2 /\ d.num_blocks = 2 /\ d.dst = Repeat(1, 1025)
    /\ d.pos = Len(d.src)

\* C26: every Lz77 command that compress writes at input position p, with
\* distance dist and length l as its operand bytes give them, has
\* 2 <= l <= dist <= p: the range copied, [p - dist, p - dist + l), lies in
\* the input before p (in this block or an earlier one), ends at or before
\* p, and holds the l bytes that follow p.  When decompress executes such a
\* command of what compress returned, the range it reads ends at or before
\* the end of the output written so far, and the command succeeds and
\* appends the l bytes of that range whenever the output written so far is
\* at least dist bytes long.
C26_NoOverlap ==
    [][/\ (WritesCommand /\ c'.last.command = "Lz77") =>
            LET pos == c.uncompressed_block_position + c.uncompressed_block_offset
                b0 == c'.dst[Len(c'.dst) - 1]
                b1 == c'.dst[Len(c'.dst)]
                dist == Lz77Distance(b0, b1)
                l == Lz77Length(b1)
            IN  /\ Len(c'.dst) = Len(c.dst) + 2
                /\ l >= 2 /\ l <= dist /\ pos - dist >= 0
                /\ pos - dist + l <= pos
                /\ SubSeq(c.src, pos - dist + 1, pos - dist + l)
                        = SubSeq(c.src, pos + 1, pos + l)
                /\ c'.uncompressed_block_offset = c.uncompressed_block_offset + l
       /\ (c.pc = "done" /\ ExecutesWithOperands("Lz77")) =>
            LET dist == Lz77Distance(d.src[d.pos + 1], d.src[d.pos + 2])
                l == Lz77Length(d.src[d.pos + 2])
                from == d.dst_pos - dist
            IN  /\ l <= dist /\ d.dst_pos = Len(d.dst)
                /\ from + l <= Len(d.dst)
                /\ from >= 0 =>
                        /\ d'.result = "Running"
                        /\ d'.dst = d.dst \o SubSeq(d.dst, from + 1, from + l)]_vars

\* C26 witness: for 0 1 0 1 compress wrote an Lz77 command of distance 2
\* and length 2 at position 2 (operand bytes 02 00), and strict decompress
\* of what it returned gave the four bytes
C26_Witness ==
    /\ c.src = <<0, 1, 0, 1>> /\ c.pc = "done" /\ c.result = "Ok"
    /\ c.last.command = "Lz77" /\ c.last.position = 2
    /\ c.last.offset = 2 /\ c.last.length = 2
    /\ SubSeq(c.dst, Len(c.dst) - 1, Len(c.dst)) = <<2, 0>>
    /\ d.strict /\ d.pc = "done" /\ d.result = "Ok" /\ d.dst = c.src

\* the palette chunks of the table all have an even length
PalettesParse(chunks) ==
    \A i \in 1..(Len(chunks) - 9) : i % 8 = 3 => Len(chunks[i]) % 2 = 0

\* C27: BattleMapFile::try_from returns InvalidNumberOfChunks exactly when
\* (number of chunks - 1) is not divisible by 8; for every other number of
\* chunks it does not panic and, when the palettes parse, returns
\* (chunks - 9) / 8 maps, in order, with unk_last the last 9 chunks and
\* padding the footer.
C27_TryFrom ==
    m.pc = "done" =>
        LET chunks == m.value.chunks
            n == Len(chunks)
        IN  /\ m.file.result = "InvalidNumberOfChunks" <=> (n - 1) % 8 # 0
            /\ (n - 1) % 8 = 0 =>
                /\ m.file.result # "Panic"
                /\ PalettesParse(chunks) =>
                    /\ m.file.result = "Ok"
                    /\ Len(m.file.maps) * 8 = n - 9
                    /\ \A k \in 1..Len(m.file.maps) :
                            /\ m.file.maps[k].unk0 = chunks[8 * k - 7]
                            /\ m.file.maps[k].tileset = Serialized(chunks[8 * k - 6])
                            /\ m.file.maps[k].unk7 = chunks[8 * k]
                    /\ m.file.unk_last = SubSeq(chunks, n - 8, n)
                    /\ m.file.padding = m.value.footer

\* the bytes up to and including the last one that is not zero
UpToLastNonZero(bytes) ==
    LET found == {i \in 1..Len(bytes) : bytes[i] # 0}
    IN  IF found = {} THEN <<>>
        ELSE SubSeq(bytes, 1, CHOOSE i \in found : \A j \in found : j <= i)

RECURSIVE WithoutTrailingZeroTiles(_)
WithoutTrailingZeroTiles(tileset) ==
    IF tileset = <<>> THEN <<>>
    ELSE IF tileset[Len(tileset)] = ZeroTile
    THEN WithoutTrailingZeroTiles(SubSeq(tileset, 1, Len(tileset) - 1))
    ELSE tileset

PixelsFit(tileset) ==
    \A t \in 1..Len(tileset) : \A k \in 1..Len(tileset[t]) : tileset[t][k] <= 15

\* C28: for every tileset whose pixels are all at most 0x0F, the empty
\* tileset and the tilesets of zero bytes included, serialize_tileset returns
\* Ok without panicking, with the compressed form of the four bits per pixel
\* bytes up to and including the last non-zero byte; and deserialize_tileset
\* of those bytes returns the tileset without its trailing all-zero tiles.
C28_TilesetRoundTrip ==
    PixelsFit(m.tileset) =>
        /\ m.pc # "serialize_tileset" =>
              /\ m.serialized.result = "Ok"
              /\ m.serialized.data =
                    compress(UpToLastNonZero(Tileset_to_bytes(m.tileset).data),
                             overflow_checks).dst
        /\ m.pc = "done" =>
              /\ m.back.result = "Ok"
              /\ m.back.tileset = WithoutTrailingZeroTiles(m.tileset)

====
